---- MODULE Spec2Model ----
(***************************************************************************)
(* Verification model of two orchestration cores of the repository:        *)
(*                                                                         *)
(*  - FetiDynamicCoupledSolver (CoSimulationApplication): the subcycled    *)
(*    dual-domain time coupler, specification Spec;                        *)
(*  - FluidRVEAnalysis (FluidDynamicsApplication): bounding-box detection  *)
(*    and classification of the boundary facets into face groups,          *)
(*    specification SpecRVE; bounding-box detection on its own,            *)
(*    specification SpecBox; face construction followed by the periodicity *)
(*    constraints, specification SpecPeriodicity.                          *)
(*                                                                         *)
(* The solvers, the mapper and the FETI coupling utility are external      *)
(* collaborators: the model records the calls made on them (their order    *)
(* and their number) and draws their return values and failures from       *)
(* small sets.                                                             *)
(***************************************************************************)
EXTENDS Integers, Sequences, FiniteSets, TLC

VARIABLES
    \* ---- FetiDynamicCoupledSolver ----
    settings,          \* the CoSim parameters read by the coupler
    wrapper_kind,      \* _ClassName() of solver_wrappers_vector[0], [1]
    n_coupling_ops,    \* len(coupling_operations_dict)
    ctor,              \* "pending" | "constructed" | "failed"
    timestep_ratio,    \* self.timestep_ratio
    is_initialized,    \* self.is_initialized
    attrs,             \* attributes of self that exist so far
    is_implicit,       \* self.is_implicit
    time,              \* self.time
    solverB_time,      \* self.solverB_time
    pc,                \* "idle": no call is running; "Lnn": line nn of
                       \* SolveSolutionStep is next; "done": a call has
                       \* just returned or raised
    sub_timestep,      \* loop variable of SolveSolutionStep
    call,              \* the coupler method called last
    result,            \* "none" | "running" | "returned" | "raised"
    error,             \* kind of the exception raised by the last call
    retval,            \* value returned by the last call
    trace,             \* external calls made by the current / last call
    count,             \* cumulative numbers of calls over the run
    \* ---- FluidRVEAnalysis ----
    rve,               \* the FluidRVEAnalysis object and its mesh (see InitMesh)
    \* ---- AlgorithmSteepestDescent ----
    opt                \* the optimization algorithm object (see InitAlgorithm)

cvars == <<settings, wrapper_kind, n_coupling_ops, ctor, timestep_ratio,
           is_initialized, attrs, is_implicit, time, solverB_time, pc,
           sub_timestep, call, result, error, retval, trace, count>>
vars == <<cvars, rve, opt>>

(***************************************************************************)
(* Bounds of the model                                                     *)
(***************************************************************************)
MaxRatio == 3        \* largest timestep_ratio drawn
MaxCalls == 3        \* coupler methods called after construction
MaxCouplingOps == 2  \* most coupling operations (output writers) configured
MaxOuterSteps == 2   \* outer steps of a solution loop (specification SpecLoop)

(***************************************************************************)
(* Inputs.  timestep_ratio is a double in the parameters; the model keeps  *)
(* it in halves (5 stands for 2.5) so that non-integer values exist.       *)
(* Newmark betas are kept in quarters: -4 is the default -1.0 (implicit),  *)
(* 0 is 0.0 (explicit).                                                    *)
(***************************************************************************)
RatioHalves == (-2) .. (2 * MaxRatio)
BetaQuarters == {-4, 0}
MapperTypes == {"coupling_geometry", "nearest_neighbor"}
WrapperKinds == {"StructuralMechanicsWrapper", "ExternalSolverWrapper"}
TimeValues == {0, 1, 2}

\* Python's int() on a double: truncation toward zero (argument in halves).
IntOfHalves(h) == IF h >= 0 THEN h \div 2 ELSE -((-h) \div 2)

\* One external call: the operation, the domain index it concerns
\* (2: the coupling utility / mapper as a whole) and the substep it is made in
\* (0: outside the substep loop).
\* AdvanceInTime calls also carry the time passed and the time returned.
EvT(op, idx, sub, arg, ret) ==
    [op |-> op, idx |-> idx, sub |-> sub, arg |-> arg, ret |-> ret]
Ev(op, idx, sub) == EvT(op, idx, sub, -1, -1)

\* History of the whole run: numbers of coupler methods called, of one-time
\* setup calls and of InitializeSolutionStep calls that returned; whether a
\* domain's SolveSolutionStep and EquilibrateDomains were ever called (0 / 1).
CountKeys == {"calls", "FetiDynamicCouplingUtilities", "SetMappingMatrix",
              "SetOriginInitialKinematics", "EquilibrateDomains",
              "SolveSolutionStep", "InitializeReturned"}

Bump(c, k) == [c EXCEPT ![k] = @ + 1]

\* "EquilibrateDomains" and "SolveSolutionStep" only record that the call
\* was made at least once in the run.
Mark(c, k) == [c EXCEPT ![k] = 1]

(***************************************************************************)
(* Init: the parameters and the environment are drawn; no coupler exists.  *)
(***************************************************************************)
\* The parameters of a coupler whose methods are called in any order, with
\* any time, on domains that return any time (run = "any").
CouplerSettings ==
    [timestep_ratio : RatioHalves,
     origin_newmark_beta : BetaQuarters,
     destination_newmark_beta : BetaQuarters,
     mapper_type : MapperTypes,
     run : {"any"}]

InitCouplerFrom(parameters) ==
    /\ settings \in parameters
    /\ wrapper_kind \in [0 .. 1 -> WrapperKinds]
    /\ n_coupling_ops \in 0 .. MaxCouplingOps
    /\ ctor = "pending"
    /\ timestep_ratio = 0
    /\ is_initialized = FALSE
    /\ attrs = {}
    /\ is_implicit = [i \in 0 .. 1 |-> TRUE]
    /\ time = 0
    /\ solverB_time = 0
    /\ pc = "idle"
    /\ sub_timestep = 0
    /\ call = "none"
    /\ result = "none"
    /\ error = "none"
    /\ retval = <<>>
    /\ trace = <<>>
    /\ count = [k \in CountKeys |-> 0]

InitCoupler == InitCouplerFrom(CouplerSettings)

(***************************************************************************)
(* The solution loop (run = "loop", specification SpecLoop): the analysis  *)
(* that drives the coupler calls AdvanceInTime with the time the coupler   *)
(* returned last (0 at the start), then InitializeSolutionStep, then       *)
(* SolveSolutionStep, once each in every outer step, and stops at the      *)
(* first exception.  Domain B's AdvanceInTime(t) returns t + 1 and Domain  *)
(* A's returns t + timestep_ratio; the domains' SolveSolutionStep return   *)
(* True or False (1 or 0 in the event's ret).                              *)
(***************************************************************************)
LoopSettings ==
    [timestep_ratio : {h \in RatioHalves : h >= 0 /\ h % 2 = 0},
     origin_newmark_beta : BetaQuarters,
     destination_newmark_beta : BetaQuarters,
     mapper_type : MapperTypes,
     run : {"loop"}]

InLoop == settings.run = "loop"

SolutionLoop == <<"AdvanceInTime", "InitializeSolutionStep", "SolveSolutionStep">>

\* The time a domain's AdvanceInTime returns when called with t.
ReturnedTimes(idx, t) ==
    IF InLoop THEN {t + (IF idx = 1 THEN 1 ELSE timestep_ratio)}
    ELSE TimeValues

\* The time the driver passes to the coupler's AdvanceInTime.
CurrentTimes == IF InLoop THEN {time} ELSE TimeValues

\* What a domain's SolveSolutionStep returns, as recorded in its event.
SolveResults == IF InLoop THEN {0, 1} ELSE {-1}

(***************************************************************************)
(* __init__ (lines 17-33)                                                  *)
(***************************************************************************)
IsIntegerRatio_Unchecked(h) == TRUE

\* line 29: int(self.timestep_ratio) != self.timestep_ratio is False
IsIntegerRatio(h) == IntOfHalves(h) * 2 = h

Construct ==
    /\ ctor = "pending"
    /\ call' = "__init__"
    /\ trace' = <<Ev("AddNodalSolutionStepVariable", 0, 0),
                  Ev("AddNodalSolutionStepVariable", 1, 0)>>
    /\ IF IsIntegerRatio(settings.timestep_ratio)
       THEN /\ ctor' = "constructed"
            /\ timestep_ratio' = IntOfHalves(settings.timestep_ratio)
            /\ result' = "returned"
            /\ error' = "none"
       ELSE /\ ctor' = "failed"
            /\ result' = "raised"
            /\ error' = "timestep_ratio"
            /\ UNCHANGED timestep_ratio
    /\ pc' = "done"
    /\ UNCHANGED <<settings, wrapper_kind, n_coupling_ops, is_initialized,
                   attrs, is_implicit, time, solverB_time, sub_timestep,
                   retval, count, rve, opt>>

\* A coupler method can be called on a constructed coupler that is not
\* inside another call.
Callable(method) ==
    /\ ctor = "constructed"
    /\ pc = "idle"
    /\ IF InLoop
       THEN /\ count["calls"] < Len(SolutionLoop) * MaxOuterSteps
            /\ method = SolutionLoop[(count["calls"] % Len(SolutionLoop)) + 1]
       ELSE count["calls"] < MaxCalls

(***************************************************************************)
(* AdvanceInTime (lines 36-48)                                             *)
(***************************************************************************)
\* lines 41-48: the value left in self.time, given what the two domains
\* returned (self.time is reset to 0.0 on line 41).
CouplerTime(retB, retA) ==
    LET time0 == 0
    IN  IF retA # 0
        THEN IF time0 = 0 THEN retA ELSE time0
        ELSE time0

AdvanceInTime ==
    /\ Callable("AdvanceInTime")
    /\ \E current_time \in CurrentTimes :
       \E retB \in ReturnedTimes(1, current_time) :
       \E retA \in ReturnedTimes(0, current_time) :
          /\ trace' = <<EvT("AdvanceInTime", 1, 0, current_time, retB),
                        EvT("AdvanceInTime", 0, 0, current_time, retA)>>
          /\ solverB_time' = retB
          /\ time' = CouplerTime(retB, retA)
          /\ retval' = <<time'>>
    /\ attrs' = attrs \cup {"time", "solverB_time"}
    /\ call' = "AdvanceInTime"
    /\ result' = "returned"
    /\ error' = "none"
    /\ count' = Bump(count, "calls")
    /\ pc' = "done"
    /\ UNCHANGED <<settings, wrapper_kind, n_coupling_ops, ctor, timestep_ratio,
                   is_initialized, is_implicit, sub_timestep, rve, opt>>

(***************************************************************************)
(* InitializeSolutionStep (lines 51-55), __InitializeFetiMethod (88-147)   *)
(***************************************************************************)
NeedsFetiSetup_Always == TRUE

\* Line 54 testing whether a setup was ever started, not whether one finished.
NeedsFetiSetup_FirstAttemptOnly == count["FetiDynamicCouplingUtilities"] = 0

\* line 54
NeedsFetiSetup == is_initialized = FALSE

MapperSupported_Any(mapper_type) == TRUE

\* line 134
MapperSupported(mapper_type) == mapper_type = "coupling_geometry"

ImplicitFromBeta_Always(beta) == TRUE

\* lines 112-113: a domain is explicit iff its Newmark beta is 0.0
ImplicitFromBeta(beta) == beta # 0

\* lines 90-131: what the setup does before it looks at the mapper type
SetupHead ==
    <<Ev("CreateMapper", 2, 0),
      Ev("GetInterfaceModelPartOrigin", 2, 0),
      Ev("GetInterfaceModelPartDestination", 2, 0),
      Ev("FetiDynamicCouplingUtilities", 2, 0),
      Ev("SetOriginAndDestinationDomainsWithInterfaceModelParts", 2, 0),
      Ev("CreateLinearSolver", 2, 0),
      Ev("SetLinearSolver", 2, 0)>>

\* lines 135-140
SetupTail ==
    <<Ev("GetMappingMatrix", 2, 0),
      Ev("SetMappingMatrix", 2, 0),
      Ev("SetOriginInitialKinematics", 2, 0)>>

InitializeFetiMethod(before) ==
    /\ is_implicit' = [i \in 0 .. 1 |->
                          IF i = 0
                          THEN ImplicitFromBeta(settings.origin_newmark_beta)
                          ELSE ImplicitFromBeta(settings.destination_newmark_beta)]
    /\ IF MapperSupported(settings.mapper_type)
       THEN /\ trace' = before \o SetupHead \o SetupTail
            /\ attrs' = attrs \cup {"mapper", "is_implicit", "feti_coupling",
                                    "vtk_output_wrappers_vector"}
            /\ is_initialized' = TRUE
            /\ result' = "returned"
            /\ error' = "none"
            /\ count' = Bump(Bump(Bump(Bump(Bump(count, "calls"),
                             "FetiDynamicCouplingUtilities"),
                             "SetMappingMatrix"),
                             "SetOriginInitialKinematics"),
                             "InitializeReturned")
       ELSE /\ trace' = before \o SetupHead
            /\ attrs' = attrs \cup {"mapper", "is_implicit", "feti_coupling"}
            /\ result' = "raised"
            /\ error' = "mapper_type"
            /\ count' = Bump(Bump(count, "calls"), "FetiDynamicCouplingUtilities")
            /\ UNCHANGED is_initialized

InitializeSolutionStep ==
    /\ Callable("InitializeSolutionStep")
    /\ call' = "InitializeSolutionStep"
    /\ IF NeedsFetiSetup
       THEN InitializeFetiMethod(<<Ev("super.InitializeSolutionStep", 2, 0)>>)
       ELSE /\ trace' = <<Ev("super.InitializeSolutionStep", 2, 0)>>
            /\ result' = "returned"
            /\ error' = "none"
            /\ count' = Bump(Bump(count, "calls"), "InitializeReturned")
            /\ UNCHANGED <<is_implicit, attrs, is_initialized>>
    /\ retval' = <<>>
    /\ pc' = "done"
    /\ UNCHANGED <<settings, wrapper_kind, n_coupling_ops, ctor, timestep_ratio,
                   time, solverB_time, sub_timestep, rve, opt>>

(***************************************************************************)
(* SolveSolutionStep (lines 58-85), one action per statement.  pc names    *)
(* the source line about to be executed.                                   *)
(***************************************************************************)
\* Variables no statement of SolveSolutionStep assigns.
solveFrame == <<settings, wrapper_kind, n_coupling_ops, ctor, timestep_ratio,
                is_initialized, attrs, is_implicit, time, call, rve, opt>>

\* The statement made the calls evs and control moves to line `to`.
Go(evs, to) ==
    /\ trace' = trace \o evs
    /\ pc' = to
    /\ UNCHANGED <<result, error, retval, sub_timestep>>

Raise_Caught(evs, err) ==
    /\ trace' = trace \o evs
    /\ pc' = "L65"
    /\ result' = "raised"
    /\ error' = err
    /\ UNCHANGED <<retval, sub_timestep>>

\* The statement made the calls evs, the last of which (or the statement
\* itself) raised: the exception leaves SolveSolutionStep, nothing catches it,
\* and the loop variable is gone with the frame.
Raise(evs, err) ==
    /\ trace' = trace \o evs
    /\ pc' = "done"
    /\ result' = "raised"
    /\ error' = err
    /\ sub_timestep' = 0
    /\ UNCHANGED retval

\* A call on an external collaborator returns or raises.
External(ev, to) ==
    \/ Go(<<ev>>, to)
    \/ Raise(<<ev>>, "external")

CallSolveSolutionStep ==
    /\ Callable("SolveSolutionStep")
    /\ call' = "SolveSolutionStep"
    /\ pc' = "L60"
    /\ trace' = <<>>
    /\ result' = "running"
    /\ error' = "none"
    /\ retval' = <<>>
    /\ sub_timestep' = 0
    /\ count' = Bump(count, "calls")
    /\ UNCHANGED <<settings, wrapper_kind, n_coupling_ops, ctor, timestep_ratio,
                   is_initialized, attrs, is_implicit, time, solverB_time, rve, opt>>

\* line 60
\* Lines 60 and 73 with a reported failure skipping the rest of the substep.
AfterDomainSolve_SkipOnFailure(returned, to) == IF returned = 0 THEN "L65" ELSE to

\* Lines 60 and 73: the value a domain's SolveSolutionStep returns is not
\* assigned or tested; the next statement runs whatever it is.
AfterDomainSolve(returned, to) == to

SolveDomainA ==
    /\ pc = "L60"
    /\ \E returned \in SolveResults :
          \/ Go(<<EvT("SolveSolutionStep", 0, 0, -1, returned)>>,
                AfterDomainSolve(returned, "L61"))
          \/ Raise(<<Ev("SolveSolutionStep", 0, 0)>>, "external")
    /\ count' = Mark(count, "SolveSolutionStep")
    /\ UNCHANGED <<solveFrame, solverB_time>>

\* lines 166-173: the strategy lookup succeeds for this wrapper kind
HasSolverStrategy(kind) == kind = "StructuralMechanicsWrapper"

SendStiffnessMatrixToUtility_LookupFirst(solverIndex, to) ==
    IF "is_implicit" \notin attrs
    THEN Raise(<<>>, "AttributeError")
    ELSE IF ~HasSolverStrategy(wrapper_kind[solverIndex])
         THEN Raise(<<>>, "wrapper_kind")
         ELSE IF is_implicit[solverIndex]
              THEN Go(<<Ev("GetSystemMatrix", solverIndex, sub_timestep),
                        Ev("SetEffectiveStiffnessMatrixImplicit", solverIndex,
                           sub_timestep)>>, to)
              ELSE Go(<<Ev("SetEffectiveStiffnessMatrixExplicit", solverIndex,
                           sub_timestep)>>, to)

\* lines 150-155
SendStiffnessMatrixToUtility(solverIndex, to) ==
    IF "is_implicit" \notin attrs
    THEN Raise(<<>>, "AttributeError")
    ELSE IF is_implicit[solverIndex]
         THEN IF HasSolverStrategy(wrapper_kind[solverIndex])
              THEN \/ Go(<<Ev("GetSystemMatrix", solverIndex, sub_timestep),
                           Ev("SetEffectiveStiffnessMatrixImplicit", solverIndex,
                              sub_timestep)>>, to)
                   \/ Raise(<<Ev("GetSystemMatrix", solverIndex, sub_timestep)>>,
                            "external")
                   \/ Raise(<<Ev("GetSystemMatrix", solverIndex, sub_timestep),
                              Ev("SetEffectiveStiffnessMatrixImplicit", solverIndex,
                                 sub_timestep)>>, "external")
              ELSE Raise(<<>>, "wrapper_kind")
         ELSE External(Ev("SetEffectiveStiffnessMatrixExplicit", solverIndex,
                          sub_timestep), to)

\* line 61
SendStiffnessA ==
    /\ pc = "L61"
    /\ SendStiffnessMatrixToUtility(0, "L65")
    /\ UNCHANGED <<solveFrame, solverB_time, count>>

\* line 65: the next value of range(1, timestep_ratio + 1), if any;
\* line 66: substeps after the first go through lines 67-71;
\* line 85: return True when the range is exhausted.
HasNextSubstep_OffByOne == sub_timestep + 1 < timestep_ratio

\* line 65: range(1, self.timestep_ratio + 1) has a value after sub_timestep
HasNextSubstep == sub_timestep + 1 < timestep_ratio + 1

LoopHead ==
    /\ pc = "L65"
    /\ IF HasNextSubstep
       THEN /\ sub_timestep' = sub_timestep + 1
            /\ pc' = IF sub_timestep' > 1 THEN "L67" ELSE "L73"
            /\ UNCHANGED <<result, error, retval>>
       ELSE /\ pc' = "done"
            /\ result' = "returned"
            /\ retval' = <<TRUE>>
            /\ sub_timestep' = 0
            /\ UNCHANGED error
    /\ UNCHANGED <<solveFrame, solverB_time, trace, count>>

\* line 67
\* Line 67 with the coupler's time passed instead of Domain B's own clock.
SubstepStartTime_CouplerTime == time

\* Line 67: the time passed to Domain B's AdvanceInTime in a later substep
\* is the value its previous AdvanceInTime returned.
SubstepStartTime == solverB_time

AdvanceDomainB ==
    /\ pc = "L67"
    /\ IF "solverB_time" \notin attrs
       THEN Raise(<<>>, "AttributeError") /\ UNCHANGED solverB_time
       ELSE \/ \E ret \in ReturnedTimes(1, SubstepStartTime) :
                  /\ Go(<<EvT("AdvanceInTime", 1, sub_timestep, SubstepStartTime, ret)>>,
                        "L68")
                  /\ solverB_time' = ret
            \/ /\ Raise(<<EvT("AdvanceInTime", 1, sub_timestep, SubstepStartTime, -1)>>,
                        "external")
               /\ UNCHANGED solverB_time
    /\ UNCHANGED <<solveFrame, count>>

\* line 68
InitializeDomainB ==
    /\ pc = "L68"
    /\ External(Ev("InitializeSolutionStep", 1, sub_timestep), "L69")
    /\ UNCHANGED <<solveFrame, solverB_time, count>>

HasSecondaryWriter_Always == TRUE

\* lines 69-70 and 81-82: the second coupling operation is the writer kept in
\* step with Domain B; it is called only if there are exactly two.
HasSecondaryWriter == n_coupling_ops = 2

WriterCall(op, to) ==
    IF "vtk_output_wrappers_vector" \notin attrs
    THEN Raise(<<>>, "AttributeError")
    ELSE IF HasSecondaryWriter
         THEN External(Ev(op, 1, sub_timestep), to)
         ELSE Go(<<>>, to)

\* lines 69-70
InitializeWriter ==
    /\ pc = "L69"
    /\ WriterCall("vtk.InitializeSolutionStep", "L71")
    /\ UNCHANGED <<solveFrame, solverB_time, count>>

\* line 71
PredictDomainB ==
    /\ pc = "L71"
    /\ External(Ev("Predict", 1, sub_timestep), "L73")
    /\ UNCHANGED <<solveFrame, solverB_time, count>>

\* line 73
SolveDomainB ==
    /\ pc = "L73"
    /\ \E returned \in SolveResults :
          \/ Go(<<EvT("SolveSolutionStep", 1, sub_timestep, -1, returned)>>,
                AfterDomainSolve(returned, "L74"))
          \/ Raise(<<Ev("SolveSolutionStep", 1, sub_timestep)>>, "external")
    /\ count' = Mark(count, "SolveSolutionStep")
    /\ UNCHANGED <<solveFrame, solverB_time>>

SendStiffnessB_Skipped ==
    /\ pc = "L74"
    /\ Go(<<>>, "L77")
    /\ UNCHANGED <<solveFrame, solverB_time, count>>

\* line 74
SendStiffnessB ==
    /\ pc = "L74"
    /\ SendStiffnessMatrixToUtility(1, "L77")
    /\ UNCHANGED <<solveFrame, solverB_time, count>>

\* line 77
EquilibrateDomains ==
    /\ pc = "L77"
    /\ IF "feti_coupling" \notin attrs
       THEN Raise(<<>>, "AttributeError") /\ UNCHANGED count
       ELSE /\ External(Ev("EquilibrateDomains", 2, sub_timestep), "L79")
            /\ count' = Mark(count, "EquilibrateDomains")
    /\ UNCHANGED <<solveFrame, solverB_time>>

IsLastSubstep_Never == FALSE

\* line 79
IsLastSubstep == ~(sub_timestep # timestep_ratio)

\* lines 79-80
FinalizeDomainB ==
    /\ pc = "L79"
    /\ IF IsLastSubstep
       THEN Go(<<>>, "L65")
       ELSE External(Ev("FinalizeSolutionStep", 1, sub_timestep), "L81")
    /\ UNCHANGED <<solveFrame, solverB_time, count>>

\* lines 81-82
FinalizeWriter ==
    /\ pc = "L81"
    /\ WriterCall("vtk.FinalizeSolutionStep", "L83")
    /\ UNCHANGED <<solveFrame, solverB_time, count>>

\* line 83
OutputDomainB ==
    /\ pc = "L83"
    /\ External(Ev("OutputSolutionStep", 1, sub_timestep), "L65")
    /\ UNCHANGED <<solveFrame, solverB_time, count>>

SolveSolutionStep ==
    \/ CallSolveSolutionStep
    \/ SolveDomainA
    \/ SendStiffnessA
    \/ LoopHead
    \/ AdvanceDomainB
    \/ InitializeDomainB
    \/ InitializeWriter
    \/ PredictDomainB
    \/ SolveDomainB
    \/ SendStiffnessB
    \/ EquilibrateDomains
    \/ FinalizeDomainB
    \/ FinalizeWriter
    \/ OutputDomainB

(***************************************************************************)
(* The coupler's specification                                             *)
(***************************************************************************)
RveIdle == [phase |-> "unused"]
OptIdle == [phase |-> "unused"]

Init == InitCoupler /\ rve = RveIdle /\ opt = OptIdle

\* Control is back in the caller of the coupler (the analysis driving it);
\* what the finished call left in call, result, error, retval and trace is
\* consumed.  After a failed construction there is no coupler to go on with.
Return ==
    /\ pc = "done"
    /\ ctor = "constructed"
    /\ InLoop => result # "raised"
    /\ pc' = "idle"
    /\ call' = "none"
    /\ result' = "none"
    /\ error' = "none"
    /\ retval' = <<>>
    /\ trace' = <<>>
    /\ UNCHANGED <<settings, wrapper_kind, n_coupling_ops, ctor, timestep_ratio,
                   is_initialized, attrs, is_implicit, time, solverB_time,
                   sub_timestep, count, rve, opt>>

Next ==
    \/ Construct
    \/ Return
    \/ AdvanceInTime
    \/ InitializeSolutionStep
    \/ SolveSolutionStep

Spec == Init /\ [][Next]_vars

\* The coupler in a solution loop.
InitLoop == InitCouplerFrom(LoopSettings) /\ rve = RveIdle /\ opt = OptIdle

SpecLoop == InitLoop /\ [][Next]_vars

(***************************************************************************)
(***************************************************************************)
(* FluidRVEAnalysis: bounding box and face model parts                     *)
(***************************************************************************)
(***************************************************************************)
MaxPasses == 2     \* calls of ModifyInitialGeometry
MaxAvgNodes == 2   \* most nodes in the averaging model part
MaxRootOnly == 1   \* most conditions of the root model part that are not
                   \* in the boundary model part

\* self.populate_search_eps = 1e-4, kept as its inverse
PopulateSearchEpsInv == 10000

(***************************************************************************)
(* The mesh.  A node is its coordinate triple <<X, Y, Z>> (which also      *)
(* stands for its Id); a condition is the set of its nodes.  Meshes are    *)
(* drawn on the corners of the unit square (2-D, Z = 0) or the unit cube:  *)
(* the sides and diagonals of the square, the six faces of the cube.       *)
(***************************************************************************)
Coords == {0, 1}

GridNodes(d) ==
    {<<x, y, z>> : x \in Coords, y \in Coords,
                   z \in (IF d = 3 THEN Coords ELSE {0})}

CandidateConditions(d) ==
    IF d = 3
    THEN {{n \in GridNodes(3) : n[c] = v} : c \in 1 .. 3, v \in Coords}
    ELSE {f \in SUBSET GridNodes(2) : Cardinality(f) = 2}

NodesOf(conds) == UNION conds

RECURSIVE SumCoord(_, _)
SumCoord(nodes, c) ==
    IF nodes = {} THEN 0
    ELSE LET n == CHOOSE m \in nodes : TRUE
         IN  n[c] + SumCoord(nodes \ {n}, c)

MinOf(S) == CHOOSE m \in S : \A x \in S : m <= x
MaxOf(S) == CHOOSE m \in S : \A x \in S : m >= x

(***************************************************************************)
(* _DetectBoundingBox (lines 75-103): the running minimum and maximum of   *)
(* X, Y and Z over the nodes of the model part, started from the sentinels *)
(* 1e20 and -1e20 (lines 77-84).  The model's unit of length is 1e19, so   *)
(* the sentinel is 10; face classification only depends on ratios of       *)
(* lengths (eps is relative to the diagonal), so the unit square and cube  *)
(* above stand for any square and cube.                                    *)
(***************************************************************************)
BoxSentinel == 10

RunningMin_Keep(current, x) == current

\* lines 88, 92, 96: min(min_corner[i], x)
RunningMin(current, x) == IF x < current THEN x ELSE current

\* lines 89, 93, 97: max(max_corner[i], x)
RunningMax(current, x) == IF x > current THEN x ELSE current

\* lines 86-97: the loop over mp.Nodes
RECURSIVE RunningBox(_, _)
RunningBox(nodes, box) ==
    IF nodes = {} THEN box
    ELSE LET node == CHOOSE n \in nodes : TRUE
         IN  RunningBox(nodes \ {node},
                 [min_corner |-> [c \in 1 .. 3 |->
                                     RunningMin(box.min_corner[c], node[c])],
                  max_corner |-> [c \in 1 .. 3 |->
                                     RunningMax(box.max_corner[c], node[c])]])

DetectBoundingBox(nodes) ==
    RunningBox(nodes,
               [min_corner |-> [c \in 1 .. 3 |-> BoxSentinel],
                max_corner |-> [c \in 1 .. 3 |-> -BoxSentinel]])

(***************************************************************************)
(* Face names in the order _ConstructFaceModelParts populates them         *)
(* (lines 138-148): the slave (max) faces, then the master (min) faces,    *)
(* the z faces only when domain_size is 3.                                 *)
(***************************************************************************)
FaceNames == {"max_x_face", "max_y_face", "max_z_face",
              "min_x_face", "min_y_face", "min_z_face"}

FaceOrder_MinFirst(d) ==
    IF d = 3
    THEN <<"min_x_face", "min_y_face", "min_z_face",
           "max_x_face", "max_y_face", "max_z_face">>
    ELSE <<"min_x_face", "min_y_face", "max_x_face", "max_y_face">>

FaceOrder(d) ==
    IF d = 3
    THEN <<"max_x_face", "max_y_face", "max_z_face",
           "min_x_face", "min_y_face", "min_z_face">>
    ELSE <<"max_x_face", "max_y_face", "min_x_face", "min_y_face">>

\* The component argument of __PopulateMp for a face, as a 1-based index.
FaceComponent(face) ==
    CASE face \in {"max_x_face", "min_x_face"} -> 1
      [] face \in {"max_y_face", "min_y_face"} -> 2
      [] face \in {"max_z_face", "min_z_face"} -> 3

\* The coordinate argument of __PopulateMp for a face.
FaceCoordinate(face, min_corner, max_corner) ==
    IF face \in {"max_x_face", "max_y_face", "max_z_face"}
    THEN max_corner[FaceComponent(face)]
    ELSE min_corner[FaceComponent(face)]

\* lines 131-132: diag_lenght squared
DiagSquared(min_corner, max_corner) ==
    (max_corner[1] - min_corner[1]) * (max_corner[1] - min_corner[1])
    + (max_corner[2] - min_corner[2]) * (max_corner[2] - min_corner[2])
    + (max_corner[3] - min_corner[3]) * (max_corner[3] - min_corner[3])

(***************************************************************************)
(* lines 116-117 with line 133: abs(xc[component] - coordinate) < eps,     *)
(* eps = populate_search_eps * diag_lenght.  The center xc of a condition  *)
(* with k nodes is the mean of its nodes, so with S the sum of the node    *)
(* coordinates the test is (S - k*coordinate)^2 * 1e8 < k^2 * diag^2, in   *)
(* exact arithmetic; it is evaluated without forming the left product.     *)
(***************************************************************************)
WithinEps_Inclusive(cond, c, coordinate, diag2) ==
    LET k == Cardinality(cond)
        dist == SumCoord(cond, c) - k * coordinate
    IN  dist * dist
          <= (k * k * diag2) \div (PopulateSearchEpsInv * PopulateSearchEpsInv)

WithinEps(cond, c, coordinate, diag2) ==
    LET k == Cardinality(cond)
        dist == SumCoord(cond, c) - k * coordinate
        bound == k * k * diag2
    IN  /\ bound >= 1
        /\ dist * dist
             <= (bound - 1) \div (PopulateSearchEpsInv * PopulateSearchEpsInv)

\* line 123: the node is not yet claimed
Unclaimed(node, slave) == node \notin slave

(***************************************************************************)
(* Init: a mesh is drawn; nothing is flagged, no face sub model part       *)
(* exists.                                                                 *)
(***************************************************************************)
Meshes(d) ==
    {m \in [root : SUBSET CandidateConditions(d),
            boundary : SUBSET CandidateConditions(d),
            averaging : SUBSET GridNodes(d)] :
        /\ m.boundary \subseteq m.root
        /\ Cardinality(m.root \ m.boundary) <= MaxRootOnly
        /\ m.averaging # {}
        /\ Cardinality(m.averaging) <= MaxAvgNodes}

\* The analysis object and its mesh before any method has run.
MeshRecord(d, m) ==
    [domain_size |-> d,
     root_conditions |-> m.root,        \* conditions of the root model part
     boundary_conditions |-> m.boundary, \* conditions of boundary_mp
     averaging_nodes |-> m.averaging,   \* nodes of averaging_mp
     min_corner |-> <<0, 0, 0>>,
     max_corner |-> <<0, 0, 0>>,
     diag2 |-> 0,                       \* (eps / populate_search_eps)^2
     slave |-> {},                      \* nodes with the SLAVE flag
     master |-> {},                     \* nodes with the MASTER flag
     sub_model_parts |-> {},            \* face sub model parts that exist
     face_conditions |-> [f \in FaceNames |-> {}],
     face_nodes |-> [f \in FaceNames |-> {}],
     pc |-> "idle",                     \* "idle" | "L131" | "L139" | "L150"
     face_index |-> 0,                  \* faces populated in this pass
     passes |-> 0,
     result |-> "none",                 \* of the last ModifyInitialGeometry
     error |-> "none"]

InitMesh ==
    \E d \in {2, 3} : \E m \in Meshes(d) : rve = MeshRecord(d, m)

CouplerUnused ==
    /\ settings = [timestep_ratio |-> 2, origin_newmark_beta |-> -4,
                   destination_newmark_beta |-> -4,
                   mapper_type |-> "coupling_geometry", run |-> "any"]
    /\ wrapper_kind = [i \in 0 .. 1 |-> "StructuralMechanicsWrapper"]
    /\ n_coupling_ops = 0
    /\ ctor = "pending"
    /\ timestep_ratio = 0
    /\ is_initialized = FALSE
    /\ attrs = {}
    /\ is_implicit = [i \in 0 .. 1 |-> TRUE]
    /\ time = 0
    /\ solverB_time = 0
    /\ pc = "idle"
    /\ sub_timestep = 0
    /\ call = "none"
    /\ result = "none"
    /\ error = "none"
    /\ retval = <<>>
    /\ trace = <<>>
    /\ count = [k \in CountKeys |-> 0]

(***************************************************************************)
(* ModifyInitialGeometry (lines 44-56)                                     *)
(***************************************************************************)
\* lines 44-50: the call, up to the bounding box of the averaging model part
ModifyInitialGeometry ==
    /\ rve.pc = "idle"
    /\ rve.passes < MaxPasses
    /\ LET box == DetectBoundingBox(rve.averaging_nodes)
       IN  rve' = [rve EXCEPT !.min_corner = box.min_corner,
                              !.max_corner = box.max_corner,
                              !.passes = @ + 1,
                              !.face_index = 0,
                              !.result = "running",
                              !.error = "none",
                              !.pc = "L131"]
    /\ UNCHANGED <<cvars, opt>>

ResetFlags_NotCleared ==
    /\ rve.pc = "L131"
    /\ rve' = [rve EXCEPT !.diag2 = DiagSquared(rve.min_corner, rve.max_corner),
                          !.pc = "L139"]
    /\ UNCHANGED <<cvars, opt>>

\* lines 131-136: eps, and the SLAVE and MASTER flags cleared on the nodes of
\* the boundary model part (which holds the nodes of its conditions)
ResetFlags ==
    /\ rve.pc = "L131"
    /\ rve' = [rve EXCEPT !.diag2 = DiagSquared(rve.min_corner, rve.max_corner),
                          !.slave = @ \ NodesOf(rve.boundary_conditions),
                          !.master = @ \ NodesOf(rve.boundary_conditions),
                          !.pc = "L139"]
    /\ UNCHANGED <<cvars, opt>>

BoundaryIsEmpty_Never(conditions) == FALSE

\* line 106: mp.NumberOfConditions() == 0, mp being the boundary model part
BoundaryIsEmpty(conditions) == conditions = {}

HasSubModelPart_Never(face_name) == FALSE

\* line 111: mp.HasSubModelPart(face_name), mp being the root model part
HasSubModelPart(face_name) == face_name \in rve.sub_model_parts

\* lines 115-118: the conditions __PopulateMp adds to the face sub model part
MatchingConditions(conditions, c, coordinate, diag2) ==
    {cond \in conditions : WithinEps(cond, c, coordinate, diag2)}

\* __PopulateMp (lines 105-128) for the next face of lines 139-148
PopulateMp ==
    /\ rve.pc = "L139"
    /\ rve.face_index < Len(FaceOrder(rve.domain_size))
    /\ LET face == FaceOrder(rve.domain_size)[rve.face_index + 1]
           \* lines 115-118, over the conditions of the root model part
           conds == rve.face_conditions[face]
                    \cup MatchingConditions(rve.root_conditions,
                                            FaceComponent(face),
                                            FaceCoordinate(face, rve.min_corner,
                                                           rve.max_corner),
                                            rve.diag2)
           \* lines 120-125
           node_ids == {n \in NodesOf(conds) : Unclaimed(n, rve.slave)}
       IN  IF BoundaryIsEmpty(rve.boundary_conditions)
           THEN \* lines 106-107
                rve' = [rve EXCEPT !.pc = "idle", !.result = "raised",
                                   !.error = "boundary_mp has no conditions"]
           ELSE IF ~HasSubModelPart(face) /\ face \in rve.sub_model_parts
           THEN \* line 112: CreateSubModelPart refuses a name that exists
                rve' = [rve EXCEPT !.pc = "idle", !.result = "raised",
                                   !.error = "sub model part exists"]
           ELSE rve' = [rve EXCEPT
                          !.sub_model_parts = @ \cup {face},
                          !.face_conditions[face] = conds,
                          !.slave = @ \cup node_ids,
                          !.face_nodes[face] = @ \cup node_ids,
                          !.face_index = @ + 1,
                          !.pc = IF rve.face_index + 1
                                      = Len(FaceOrder(rve.domain_size))
                                 THEN "L150" ELSE "L139"]
    /\ UNCHANGED <<cvars, opt>>

\* lines 150-155: the faces whose emptiness is an error
CheckedFaces(d) ==
    IF d = 3 THEN <<"min_x_face", "min_y_face", "min_z_face">>
    ELSE <<"min_x_face", "min_y_face">>

\* lines 150-155, then the rest of ModifyInitialGeometry (lines 53-56)
CheckFaces ==
    /\ rve.pc = "L150"
    /\ LET empty == {i \in DOMAIN CheckedFaces(rve.domain_size) :
                        rve.face_conditions[CheckedFaces(rve.domain_size)[i]] = {}}
       IN  IF empty # {}
           THEN rve' = [rve EXCEPT
                          !.pc = "idle", !.result = "raised",
                          !.error = CheckedFaces(rve.domain_size)[MinOf(empty)]
                                    \o " has 0 conditions"]
           ELSE rve' = [rve EXCEPT !.pc = "idle", !.result = "returned"]
    /\ UNCHANGED <<cvars, opt>>

NextRVE ==
    \/ ModifyInitialGeometry
    \/ ResetFlags
    \/ PopulateMp
    \/ CheckFaces

InitRVE == InitMesh /\ CouplerUnused /\ opt = OptIdle

SpecRVE == InitRVE /\ [][NextRVE]_vars


(***************************************************************************)
(* _DetectBoundingBox on its own: an averaging model part with nodes       *)
(* anywhere, also at and beyond the sentinels, specification SpecBox.      *)
(***************************************************************************)
BoxCoordValues == {-BoxSentinel - 1, -BoxSentinel, 0, BoxSentinel, BoxSentinel + 1}

BoxNodes(d) ==
    {<<x, y, z>> : x \in BoxCoordValues, y \in BoxCoordValues,
                   z \in (IF d = 3 THEN BoxCoordValues ELSE {0})}

\* The subsets of S with at most k elements.
RECURSIVE SubsetsUpTo(_, _)
SubsetsUpTo(S, k) ==
    IF k = 0 THEN {{}}
    ELSE LET smaller == SubsetsUpTo(S, k - 1)
         IN  smaller \cup {T \cup {x} : T \in smaller, x \in S}

InitBoxMesh ==
    \E d \in {2, 3} : \E nodes \in SubsetsUpTo(BoxNodes(d), MaxAvgNodes) :
        /\ nodes # {}
        /\ rve = [phase |-> "box",
                  domain_size |-> d,
                  averaging_nodes |-> nodes,
                  min_corner |-> <<0, 0, 0>>,
                  max_corner |-> <<0, 0, 0>>,
                  pc |-> "idle"]

\* line 50: self.min_corner, self.max_corner = self._DetectBoundingBox(averaging_mp)
CallDetectBoundingBox ==
    /\ rve.pc = "idle"
    /\ LET box == DetectBoundingBox(rve.averaging_nodes)
       IN  rve' = [rve EXCEPT !.min_corner = box.min_corner,
                              !.max_corner = box.max_corner,
                              !.pc = "returned"]
    /\ UNCHANGED <<cvars, opt>>

NextBox == CallDetectBoundingBox

InitBox == InitBoxMesh /\ CouplerUnused /\ opt = OptIdle

SpecBox == InitBox /\ [][NextBox]_vars

(***************************************************************************)
(* Face classification at the edge of the search tolerance, specification  *)
(* SpecEps: two-dimensional meshes of two-node conditions near the line    *)
(* X = 10000, with averaging nodes on the corners of the 10000 x 1         *)
(* rectangle.  Averaging nodes (0,0) and (10000,0) give a diagonal of      *)
(* 10000, so eps = 1 and a condition centred on X = 9999 is exactly eps    *)
(* away from the max x face; (0,0) and (10000,1) give a diagonal slightly  *)
(* longer; a single averaging node gives a diagonal of 0.  The root model  *)
(* part holds the boundary conditions only.                                *)
(***************************************************************************)
MaxEpsConditions == 2   \* most conditions of the boundary model part

EpsNodes ==
    {<<x, y, 0>> : x \in {9998, 9999, 10000}, y \in {0, 1}}

EpsCandidateConditions ==
    {f \in SUBSET EpsNodes : Cardinality(f) = 2}
    \cup {{<<0, 0, 0>>, <<0, 1, 0>>}}

EpsCorners ==
    {<<x, y, 0>> : x \in {0, 10000}, y \in {0, 1}}

EpsMeshes ==
    {[root |-> b, boundary |-> b, averaging |-> a] :
        b \in SubsetsUpTo(EpsCandidateConditions, MaxEpsConditions),
        a \in SubsetsUpTo(EpsCorners, MaxAvgNodes) \ {{}}}

InitEpsMesh ==
    \E m \in EpsMeshes : rve = MeshRecord(2, m)

NextEps ==
    \/ ModifyInitialGeometry
    \/ ResetFlags
    \/ PopulateMp
    \/ CheckFaces

InitEps == InitEpsMesh /\ CouplerUnused /\ opt = OptIdle

SpecEps == InitEps /\ [][NextEps]_vars

(***************************************************************************)
(***************************************************************************)
(* FluidRVEAnalysis: periodicity (ModifyAfterSolverInitialize and          *)
(* _ApplyPeriodicity, lines 58-73 and 157-180), specification              *)
(* SpecPeriodicity.  The whole analysis runs on meshes whose root model    *)
(* part holds the boundary conditions only; the store of master-slave      *)
(* constraints of the root model part may hold constraints of other        *)
(* origin before periodicity is applied.                                   *)
(***************************************************************************)
(***************************************************************************)
MaxApply == 2      \* calls of ModifyAfterSolverInitialize

\* lines 18-21
StrainSize(domain_size) == IF domain_size = 2 THEN 3 ELSE 6

\* lines 29-35: self.strains, keyed by the index pair of the key "ij"; the
\* jumps of the parameters are drawn all zero or all different.
StrainsOf(domain_size, jumps) ==
    [k \in (IF domain_size = 3
            THEN {<<0, 0>>, <<1, 1>>, <<0, 1>>, <<1, 2>>, <<2, 2>>, <<0, 2>>}
            ELSE {<<0, 0>>, <<1, 1>>, <<0, 1>>, <<1, 2>>}) |->
        CASE k = <<0, 0>> -> jumps.XX
          [] k = <<1, 1>> -> jumps.YY
          [] k = <<0, 1>> -> jumps.XY
          [] k = <<1, 2>> -> jumps.YZ
          [] k = <<2, 2>> -> jumps.ZZ
          [] k = <<0, 2>> -> jumps.XZ]

JumpChoices ==
    {[XX |-> 0, YY |-> 0, XY |-> 0, YZ |-> 0, ZZ |-> 0, XZ |-> 0],
     [XX |-> 1, YY |-> 2, XY |-> 3, YZ |-> 4, ZZ |-> 5, XZ |-> 6]}

StrainMatrix_UpperOnly(domain_size, strains) ==
    [ij \in (0 .. domain_size - 1) \X (0 .. domain_size - 1) |->
        IF ij[1] <= ij[2] THEN strains[<<ij[1], ij[2]>>] ELSE 0]

\* lines 63-71: the symmetric strain matrix, indexed from 0
StrainMatrix(domain_size, strains) ==
    [ij \in (0 .. domain_size - 1) \X (0 .. domain_size - 1) |->
        IF ij[1] <= ij[2] THEN strains[<<ij[1], ij[2]>>]
                          ELSE strains[<<ij[2], ij[1]>>]]

\* A master-slave constraint of the root model part: who created it (the
\* periodicity utility, in which ModifyAfterSolverInitialize call; or
\* something else), in which model part it was created, and what it ties.
OtherConstraints ==
    {[owner |-> "other", call_no |-> 0, level |-> "root", axis |-> 0,
      node |-> <<0, 0, 0>>],
     [owner |-> "other", call_no |-> 0, level |-> "sub", axis |-> 0,
      node |-> <<0, 0, 0>>]}

RemoveAllConstraints_OwnedOnly(store) == {c \in store : c.owner # "periodicity"}

RemoveAllConstraints_None(store) == store

\* lines 159-162: every constraint of the root model part is flagged
\* TO_ERASE and the flagged constraints are removed from all levels
RemoveAllConstraints(store) == {}

\* The faces of an axis (1-based): the master (min) and the slave (max) face.
MinFace(axis) == <<"min_x_face", "min_y_face", "min_z_face">>[axis]
MaxFace(axis) == <<"max_x_face", "max_y_face", "max_z_face">>[axis]

Direction_AllAxes(axis, strain_size, min_corner, max_corner) ==
    [i \in 1 .. (IF strain_size = 6 THEN 3 ELSE 2) |->
        max_corner[i] - min_corner[i]]

\* lines 164-167, 172, 174, 177: the separation vector of an axis
Direction(axis, strain_size, min_corner, max_corner) ==
    [i \in 1 .. (IF strain_size = 6 THEN 3 ELSE 2) |->
        IF i = axis THEN max_corner[axis] - min_corner[axis] ELSE 0]

\* lines 173, 175, 178: one AssignPeriodicity call
AssignPeriodicity(axis) ==
    [op |-> "AssignPeriodicity",
     master |-> MinFace(axis),
     slave |-> MaxFace(axis),
     strain |-> rve.strain,
     direction |-> Direction(axis, StrainSize(rve.domain_size),
                             rve.min_corner, rve.max_corner),
     tolerance |-> "geometrical_search_tolerance"]

\* lines 161-162
RemoveFromAllLevels ==
    [op |-> "RemoveMasterSlaveConstraintsFromAllLevels", master |-> "",
     slave |-> "", strain |-> "TO_ERASE", direction |-> <<>>, tolerance |-> ""]

\* line 180
Finalize ==
    [op |-> "Finalize", master |-> "", slave |-> "", strain |-> "VELOCITY",
     direction |-> <<>>, tolerance |-> ""]

\* lines 171-180: the calls made on the periodicity utility, in order
PeriodicityCalls ==
    <<AssignPeriodicity(1), AssignPeriodicity(2)>>
    \o (IF StrainSize(rve.domain_size) = 6 THEN <<AssignPeriodicity(3)>> ELSE <<>>)
    \o <<Finalize>>

\* The constraints the periodicity utility creates on Finalize: one for each
\* node of the slave face of each assigned pair.
CreatedConstraints(call_no) ==
    {[owner |-> "periodicity", call_no |-> call_no, level |-> "root",
      axis |-> p[1], node |-> p[2]] :
        p \in {q \in (1 .. rve.domain_size) \X GridNodes(rve.domain_size) :
                  q[2] \in rve.face_nodes[MaxFace(q[1])]}}

\* self.min_corner, self.max_corner and the six face attributes exist: they
\* are assigned on lines 50 and 139-148.
HasBoxAndFaces ==
    /\ rve.passes >= 1
    /\ \A i \in DOMAIN FaceOrder(rve.domain_size) :
          FaceOrder(rve.domain_size)[i] \in rve.sub_model_parts

\* ModifyAfterSolverInitialize (lines 58-73) with _ApplyPeriodicity
\* (lines 157-180).  `failing` is the position of the call on the
\* periodicity utility that raises (0: none does).
ApplyPeriodicity ==
    /\ rve.pc = "idle"
    /\ rve.applied < MaxApply
    /\ \E failing \in 0 .. Len(PeriodicityCalls) :
          IF ~HasBoxAndFaces
          THEN /\ failing = 0
               /\ rve' = [rve EXCEPT
                            !.constraints = RemoveAllConstraints(@),
                            !.applied = @ + 1,
                            !.ptrace = <<RemoveFromAllLevels>>,
                            !.presult = "raised",
                            !.perror = "AttributeError"]
          ELSE IF failing = 0
          THEN rve' = [rve EXCEPT
                         !.constraints = RemoveAllConstraints(@)
                                         \cup CreatedConstraints(rve.applied + 1),
                         !.applied = @ + 1,
                         !.ptrace = <<RemoveFromAllLevels>> \o PeriodicityCalls,
                         !.returned = @ + 1,
                         !.presult = "returned",
                         !.perror = "none"]
          ELSE rve' = [rve EXCEPT
                         !.constraints = RemoveAllConstraints(@),
                         !.applied = @ + 1,
                         !.ptrace = <<RemoveFromAllLevels>>
                                    \o SubSeq(PeriodicityCalls, 1, failing),
                         !.presult = "raised",
                         !.perror = "external"]
    /\ UNCHANGED <<cvars, opt>>

\* The averaging model part spans the unit square / cube, or one edge of it.
PeriodicityMeshes(d) ==
    {m \in [root : SUBSET CandidateConditions(d),
            boundary : SUBSET CandidateConditions(d),
            averaging : {{<<0, 0, 0>>, <<1, 1, IF d = 3 THEN 1 ELSE 0>>},
                         {<<0, 0, 0>>, <<1, 0, 0>>}}] :
        m.root = m.boundary}

InitPeriodicityMesh ==
    \E d \in {2, 3} : \E m \in PeriodicityMeshes(d) : \E jumps \in JumpChoices :
    \E others \in {{}, OtherConstraints} :
        rve = MeshRecord(d, m)
              @@ [jumps |-> jumps,         \* jump_XX .. jump_XZ of rve_settings
                  strains |-> StrainsOf(d, jumps),           \* self.strains
                  strain |-> StrainMatrix(d, StrainsOf(d, jumps)),
                  initial_constraints |-> others,
                  constraints |-> others,  \* the constraint store of the root
                  applied |-> 0,           \* ModifyAfterSolverInitialize calls
                  returned |-> 0,          \* those of them that returned
                  ptrace |-> <<>>,         \* calls on the periodicity utility
                  presult |-> "none",      \* of the last ModifyAfterSolverInitialize
                  perror |-> "none"]

NextPeriodicity ==
    \/ ModifyInitialGeometry
    \/ ResetFlags
    \/ PopulateMp
    \/ CheckFaces
    \/ ApplyPeriodicity

InitPeriodicity == InitPeriodicityMesh /\ CouplerUnused /\ opt = OptIdle

SpecPeriodicity == InitPeriodicity /\ [][NextPeriodicity]_vars

(***************************************************************************)
(***************************************************************************)
(* OptimizationAlgorithm and AlgorithmSteepestDescent (algorithm_base.py,  *)
(* algorithm_steepest_descent.py), specification SpecOpt.  The driver      *)
(* constructs the algorithm from its settings and then calls               *)
(* InitializeOptimizationLoop, RunOptimizationLoop and                     *)
(* FinalizeOptimizationLoop in any order.  The controllers, the native     *)
(* optimizer and the vtk output processes are external: each call on them  *)
(* is an event that returns or raises.                                     *)
(***************************************************************************)
(***************************************************************************)
MaxControls == 2     \* most entries of opt_settings["controls"]
MaxIterations == 2   \* largest max_iterations of the algorithm settings
MaxOptCalls == 3     \* calls of the three loop methods in a run

OptControlTypes == {"shape", "thickness"}

\* The sequences over S of length at most k.
SeqsUpTo(S, k) == UNION {[1 .. n -> S] : n \in 0 .. k}

\* What the controls controller answers for a control: GetControlType and
\* GetControlControllingObjects (base lines 69, 73, 166, 180).
ControlChoices ==
    [type : OptControlTypes, controlling_objects : {<<>>, <<"Structure">>}]

\* What the responses controller answers for a response:
\* GetResponseControlledObjects and GetResponseControlTypes (base lines 64-65).
ResponseChoices ==
    {[controlled_objects |-> <<>>, control_types |-> <<>>]}
    \cup {[controlled_objects |-> <<"Structure">>, control_types |-> <<t>>] :
             t \in OptControlTypes}

\* opt_settings with what the controllers know of the names in it.
\* converged_from: the iteration from which on the change of the objective is
\* below relative_tolerance (0: never).  output_interval: IsOutputStep of
\* the vtk output processes is true in every output_interval-th iteration.
OptSettings ==
    [controls : SeqsUpTo(ControlChoices, MaxControls),
     objectives : SeqsUpTo(ResponseChoices, 1),
     constraints : SeqsUpTo(ResponseChoices, 1),
     max_iterations : -1 .. MaxIterations,
     converged_from : {0, 1},
     output_interval : {1, 2}]

\* An external call of the optimization algorithm.
OEv(op, iteration, arg) == [op |-> op, iteration |-> iteration, arg |-> arg]

\* base lines 30-39: self.responses = self.objectives + self.constraints
Responses(s) ==
    [i \in 1 .. Len(s.objectives) |->
        [name |-> <<"objective", i>>] @@ s.objectives[i]]
    \o [i \in 1 .. Len(s.constraints) |->
        [name |-> <<"constraint", i>>] @@ s.constraints[i]]

\* list.index
IndexOf(seq, x) ==
    CHOOSE i \in DOMAIN seq : seq[i] = x /\ \A j \in 1 .. i - 1 : seq[j] # x

\* base lines 74-77: an object of the control is controlled by the response
\* with the control's type
Matches(response, control) ==
    \E k \in DOMAIN control.controlling_objects :
        LET object == control.controlling_objects[k]
        IN  /\ \E i \in DOMAIN response.controlled_objects :
                  response.controlled_objects[i] = object
            /\ control.type
                 = response.control_types[IndexOf(response.controlled_objects,
                                                  object)]

\* 1, 2, .. n
Indices(n) == [i \in 1 .. n |-> i]

\* base lines 80-91: the keys of self.responses_controlled_objects, in the
\* order they were inserted (positions in self.responses)
ResponseKeys(s) ==
    SelectSeq(Indices(Len(Responses(s))),
              LAMBDA r : \E c \in DOMAIN s.controls :
                            Matches(Responses(s)[r], s.controls[c]))

\* base lines 107-117: self.controls_response_gradient_names[control], the
\* responses of a control (positions in self.responses)
ControlResponses(s, c) ==
    SelectSeq(Indices(Len(Responses(s))),
              LAMBDA r : Matches(Responses(s)[r], s.controls[c]))

\* base lines 107-117: the keys of self.controls_response_gradient_names in
\* the order they were inserted: by the first response of the control, then
\* by the position of the control
ControlKeys(s) ==
    LET matched == {c \in DOMAIN s.controls : ControlResponses(s, c) # <<>>}
        Before(a, b) ==
            \/ ControlResponses(s, a)[1] < ControlResponses(s, b)[1]
            \/ /\ ControlResponses(s, a)[1] = ControlResponses(s, b)[1]
               /\ a < b
    IN  CHOOSE q \in [1 .. Cardinality(matched) -> matched] :
            \A i, j \in DOMAIN q : i < j => Before(q[i], q[j])

\* base lines 94-104: the keys of self.root_model_part_data_field_names, the
\* root model parts of the matched controlling objects
RootModelParts(s) ==
    IF ResponseKeys(s) = <<>> THEN <<>> ELSE <<"Structure">>

ControlTypeSupported_Any(control_type) == TRUE

\* base line 173
ControlTypeSupported(control_type) == control_type = "shape"

\* The algorithm object before its construction.
AlgorithmRecord(s) ==
    [settings |-> s,
     ctor |-> "pending",            \* "pending" | "constructed" | "failed"
     attrs |-> {},                  \* attributes of self that exist so far
     max_iterations |-> 0,          \* self.max_iterations
     vtkIOs |-> <<>>,               \* keys of self.root_model_parts_vtkIOs
     optimization_iteration |-> 0,  \* self.optimization_iteration
     range_pos |-> 0,               \* elements of the range of line 56 taken
     pc |-> "idle",                 \* "idle" | "L56" | "done"
     call |-> "none",               \* the method called last
     result |-> "none",             \* "none" | "running" | "returned" | "raised"
     error |-> "none",
     trace |-> <<>>,                \* external calls of the current / last call
     calls |-> 0]                   \* calls of the loop methods so far

InitAlgorithm == \E s \in OptSettings : opt = AlgorithmRecord(s)

(***************************************************************************)
(* AlgorithmSteepestDescent.__init__ (lines 29-43) with                    *)
(* OptimizationAlgorithm.__init__ (base lines 19-186).  The base           *)
(* constructor compiles the settings and raises at the first control whose *)
(* type is not "shape" (base lines 163-176); only after it has returned is *)
(* max_iterations read and the native optimizer created (lines 37-41).     *)
(* `failing`: a controller raises during the compilation.                  *)
(***************************************************************************)
ConstructAlgorithm ==
    /\ opt.ctor = "pending"
    /\ \E failing \in BOOLEAN :
          LET s == opt.settings
              optimizer == <<OEv("KOA.AlgorithmSteepestDescent", 0,
                                 [objectives |-> Len(s.objectives),
                                  constraints |-> Len(s.constraints),
                                  controls |-> Len(s.controls)])>>
          IN  IF failing
              THEN opt' = [opt EXCEPT !.ctor = "failed", !.pc = "done",
                                      !.call = "__init__",
                                      !.result = "raised",
                                      !.error = "external"]
              ELSE IF \E c \in DOMAIN s.controls :
                         ~ControlTypeSupported(s.controls[c].type)
              THEN opt' = [opt EXCEPT !.ctor = "failed", !.pc = "done",
                                      !.call = "__init__",
                                      !.result = "raised",
                                      !.error = "error in compile settings"]
              ELSE opt' = [opt EXCEPT
                             !.ctor = "constructed", !.pc = "done",
                             !.call = "__init__",
                             !.result = "returned",
                             !.attrs = {"opt_parameters", "max_iterations",
                                        "opt_algorithm"},
                             !.max_iterations = s.max_iterations,
                             !.trace = optimizer]
    /\ UNCHANGED <<cvars, rve>>

\* A loop method can be called.
OptCallable ==
    /\ opt.ctor = "constructed"
    /\ opt.pc = "idle"
    /\ opt.calls < MaxOptCalls

\* A method that makes the calls `evs` in order, all of them or up to the
\* one that raises, and leaves self.root_model_parts_vtkIOs as vtkIOsAfter
\* tells for the number of calls that returned.
OptCalls(method, evs, new_attrs, vtkIOsAfter) ==
    \E failing \in 0 .. Len(evs) :
        LET made == IF failing = 0 THEN evs ELSE SubSeq(evs, 1, failing)
        IN  opt' = [opt EXCEPT
                      !.call = method, !.pc = "done",
                      !.calls = @ + 1,
                      !.attrs = @ \cup new_attrs,
                      !.vtkIOs = vtkIOsAfter[IF failing = 0 THEN Len(evs)
                                             ELSE failing - 1],
                      !.result = IF failing = 0 THEN "returned" ELSE "raised",
                      !.error = IF failing = 0 THEN "none" ELSE "external",
                      !.trace = made]

\* base lines 193-210, for the one root model part there can be
CreateVtkIOs(roots) ==
    IF roots = <<>> THEN <<>>
    ELSE <<OEv("VtkOutputProcess", 0, roots[1]),
           OEv("ExecuteInitialize", 0, roots[1]),
           OEv("ExecuteBeforeSolutionLoop", 0, roots[1])>>

\* InitializeOptimizationLoop (lines 47-49 and base lines 189-211): the
\* dictionary is emptied (base line 192) and a root model part is entered
\* once its output process has been set up (base line 211).
InitializeOptimizationLoop ==
    /\ OptCallable
    /\ LET roots == RootModelParts(opt.settings)
           entered ==
               [returned \in 0 .. Len(CreateVtkIOs(roots)) + 1 |->
                   IF returned >= Len(CreateVtkIOs(roots)) THEN roots ELSE <<>>]
       IN  OptCalls("InitializeOptimizationLoop",
                    CreateVtkIOs(roots)
                    \o <<OEv("opt_algorithm.Initialize", 0, <<>>)>>,
                    {"root_model_parts_vtkIOs"},
                    entered)
    /\ UNCHANGED <<cvars, rve>>

\* lines 51-54: RunOptimizationLoop is called
RunOptimizationLoop ==
    /\ OptCallable
    /\ opt' = [opt EXCEPT !.call = "RunOptimizationLoop", !.pc = "L56",
                          !.calls = @ + 1,
                          !.range_pos = 0,
                          !.result = "running", !.error = "none",
                          !.trace = <<>>]
    /\ UNCHANGED <<cvars, rve>>

\* The loop of line 56 left as soon as the objective has converged.
HasNextIteration_UntilConverged ==
    /\ opt.range_pos < opt.max_iterations
    /\ ~(/\ opt.range_pos >= 1
         /\ opt.settings.converged_from # 0
         /\ opt.range_pos >= opt.settings.converged_from)

\* line 56: range(1, self.max_iterations + 1) has a next element (lines
\* 97-100, the test of convergence, are comments)
HasNextIteration == opt.range_pos < opt.max_iterations

\* lines 69-70
GradientCalls(s, iteration) ==
    [k \in DOMAIN ResponseKeys(s) |->
        OEv("CalculateResponseGradientsForTypesAndObjects", iteration,
            Responses(s)[ResponseKeys(s)[k]].name)]

\* lines 73-75
RECURSIVE MappingCalls(_, _, _)
MappingCalls(s, iteration, keys) ==
    IF keys = <<>> THEN <<>>
    ELSE [itr \in DOMAIN ControlResponses(s, keys[1]) |->
             OEv("MapControlFirstDerivative", iteration,
                 <<keys[1],
                   Responses(s)[ControlResponses(s, keys[1])[itr]].name>>)]
         \o MappingCalls(s, iteration, Tail(keys))

\* line 86
IsOutputStep(s, iteration) == iteration % s.output_interval = 0

\* lines 80-90
RECURSIVE OutputCalls(_, _, _)
OutputCalls(s, iteration, vtkIOs) ==
    IF vtkIOs = <<>> THEN <<>>
    ELSE <<OEv("ExecuteInitializeSolutionStep", iteration, vtkIOs[1]),
           OEv("IsOutputStep", iteration, vtkIOs[1])>>
         \o (IF IsOutputStep(s, iteration)
             THEN <<OEv("PrintOutput", iteration, vtkIOs[1])>> ELSE <<>>)
         \o <<OEv("ExecuteFinalizeSolutionStep", iteration, vtkIOs[1])>>
         \o OutputCalls(s, iteration, Tail(vtkIOs))

\* lines 62-75: the calls of an iteration before the output
StepCalls(s, iteration) ==
    <<OEv("UpdateTimeStep", iteration, iteration),
      OEv("RunAnalyses", iteration, "analyses"),
      OEv("CalculateResponsesValue", iteration, Len(s.objectives))>>
    \o GradientCalls(s, iteration)
    \o MappingCalls(s, iteration, ControlKeys(s))

\* lines 56-95: one iteration of the loop.  Without an earlier
\* InitializeOptimizationLoop self.root_model_parts_vtkIOs does not exist
\* and line 80 raises.
OptimizationIteration ==
    /\ opt.pc = "L56"
    /\ HasNextIteration
    /\ LET s == opt.settings
           iteration == opt.range_pos + 1
           has_vtkIOs == "root_model_parts_vtkIOs" \in opt.attrs
           evs == StepCalls(s, iteration)
                  \o (IF has_vtkIOs THEN OutputCalls(s, iteration, opt.vtkIOs)
                      ELSE <<>>)
       IN  \E failing \in 0 .. Len(evs) :
              LET made == IF failing = 0 THEN evs ELSE SubSeq(evs, 1, failing)
              IN  opt' = [opt EXCEPT
                            !.range_pos = iteration,
                            !.optimization_iteration = iteration,
                            !.attrs = @ \cup {"optimization_iteration"},
                            !.trace = @ \o made,
                            !.pc = IF failing = 0 /\ has_vtkIOs
                                   THEN "L56" ELSE "done",
                            !.result = IF failing = 0 /\ has_vtkIOs
                                       THEN "running" ELSE "raised",
                            !.error = IF failing # 0 THEN "external"
                                      ELSE IF has_vtkIOs THEN "none"
                                      ELSE "AttributeError"]
    /\ UNCHANGED <<cvars, rve>>

\* line 56: the range is exhausted and RunOptimizationLoop returns
LoopExit ==
    /\ opt.pc = "L56"
    /\ ~HasNextIteration
    /\ opt' = [opt EXCEPT !.pc = "done", !.result = "returned"]
    /\ UNCHANGED <<cvars, rve>>

\* base lines 218-220
RECURSIVE FinalizeCalls(_)
FinalizeCalls(vtkIOs) ==
    IF vtkIOs = <<>> THEN <<>>
    ELSE <<OEv("ExecuteFinalize", 0, vtkIOs[1])>> \o FinalizeCalls(Tail(vtkIOs))

\* FinalizeOptimizationLoop (lines 103-104 and base lines 218-220)
FinalizeOptimizationLoop ==
    /\ OptCallable
    /\ LET kept == [returned \in 0 .. Len(opt.vtkIOs) |-> opt.vtkIOs]
       IN  IF "root_model_parts_vtkIOs" \in opt.attrs
           THEN OptCalls("FinalizeOptimizationLoop",
                         FinalizeCalls(opt.vtkIOs), {}, kept)
           ELSE opt' = [opt EXCEPT !.call = "FinalizeOptimizationLoop",
                                   !.pc = "done", !.calls = @ + 1,
                                   !.result = "raised",
                                   !.error = "AttributeError",
                                   !.trace = <<>>]
    /\ UNCHANGED <<cvars, rve>>

\* Control is back in the driver of the optimization.
OptReturn ==
    /\ opt.pc = "done"
    /\ opt.ctor = "constructed"
    /\ opt' = [opt EXCEPT !.pc = "idle", !.call = "none", !.result = "none",
                          !.error = "none", !.trace = <<>>]
    /\ UNCHANGED <<cvars, rve>>

NextOpt ==
    \/ ConstructAlgorithm
    \/ InitializeOptimizationLoop
    \/ RunOptimizationLoop
    \/ OptimizationIteration
    \/ LoopExit
    \/ FinalizeOptimizationLoop
    \/ OptReturn

InitOpt == InitAlgorithm /\ CouplerUnused /\ rve = RveIdle

SpecOpt == InitOpt /\ [][NextOpt]_vars


(***************************************************************************)
(* Reading the record of external calls                                    *)
(***************************************************************************)
\* Positions of trace holding a call of op on index idx in substep sub.
At(op, idx, sub) ==
    {i \in DOMAIN trace :
        trace[i].op = op /\ trace[i].idx = idx /\ trace[i].sub = sub}

\* Positions of trace holding a call of op on index idx, in any substep.
AtAny(op, idx) ==
    {i \in DOMAIN trace : trace[i].op = op /\ trace[i].idx = idx}

SetStiffnessOps == {"SetEffectiveStiffnessMatrixImplicit",
                    "SetEffectiveStiffnessMatrixExplicit"}

\* Positions where the effective stiffness of domain idx reaches the
\* coupling utility (the stiffness submission), in substep sub / anywhere.
Submitted(idx, sub) ==
    {i \in DOMAIN trace :
        trace[i].op \in SetStiffnessOps /\ trace[i].idx = idx /\ trace[i].sub = sub}

SubmittedAny(idx) ==
    {i \in DOMAIN trace : trace[i].op \in SetStiffnessOps /\ trace[i].idx = idx}

SolveReturned ==
    call = "SolveSolutionStep" /\ pc = "done" /\ result = "returned"

(***************************************************************************)
(* C1.  For an initialized coupler with timestep_ratio = N >= 1, a         *)
(* SolveSolutionStep call that returns has made exactly one Domain A       *)
(* SolveSolutionStep followed by one stiffness submission for index 0,     *)
(* and, for each substep 1..N, exactly one Domain B SolveSolutionStep, one *)
(* stiffness submission for index 1 and one EquilibrateDomains (N of       *)
(* each, the last substep included); Domain B's AdvanceInTime,             *)
(* InitializeSolutionStep and Predict were each called exactly N-1 times,  *)
(* once in each of the substeps 2..N and never in substep 1.               *)
(***************************************************************************)
C1_CallCounts ==
    (SolveReturned /\ is_initialized /\ timestep_ratio >= 1) =>
        /\ AtAny("SolveSolutionStep", 0) = {1}
        /\ Cardinality(SubmittedAny(0)) = 1
        /\ \A i \in SubmittedAny(0) : i \in {2, 3} /\ trace[i].sub = 0
        /\ Cardinality(AtAny("SolveSolutionStep", 1)) = timestep_ratio
        /\ Cardinality(SubmittedAny(1)) = timestep_ratio
        /\ Cardinality(AtAny("EquilibrateDomains", 2)) = timestep_ratio
        /\ \A k \in 1 .. timestep_ratio :
              /\ Cardinality(At("SolveSolutionStep", 1, k)) = 1
              /\ Cardinality(Submitted(1, k)) = 1
              /\ Cardinality(At("EquilibrateDomains", 2, k)) = 1
        /\ \A op \in {"AdvanceInTime", "InitializeSolutionStep", "Predict"} :
              /\ Cardinality(AtAny(op, 1)) = timestep_ratio - 1
              /\ At(op, 1, 1) = {}
              /\ \A k \in 2 .. timestep_ratio : Cardinality(At(op, 1, k)) = 1

C1_Witness ==
    /\ SolveReturned /\ is_initialized /\ timestep_ratio = 3
    /\ Cardinality(AtAny("EquilibrateDomains", 2)) = 3

(***************************************************************************)
(* C2.  Within any SolveSolutionStep call (finished or not), Domain A's    *)
(* solve and its stiffness submission precede every Domain B call and      *)
(* every coupling-utility call of the substeps; a Domain B                 *)
(* SolveSolutionStep is followed directly by the stiffness submission for  *)
(* index 1 of the same substep and that by EquilibrateDomains, so every    *)
(* EquilibrateDomains is immediately preceded by the index-1 submission    *)
(* of its own substep, itself immediately preceded by that substep's       *)
(* Domain B solve.                                                         *)
(***************************************************************************)
\* The calls that make up the stiffness submission of domain idx in
\* substep sub, as a block ending at position i of trace.
SubmissionBlockEndsAt(i, idx, sub) ==
    \/ /\ trace[i] = Ev("SetEffectiveStiffnessMatrixExplicit", idx, sub)
       /\ i > 1
       /\ trace[i - 1] = Ev("SolveSolutionStep", idx, sub)
    \/ /\ trace[i] = Ev("SetEffectiveStiffnessMatrixImplicit", idx, sub)
       /\ i > 2
       /\ trace[i - 1] = Ev("GetSystemMatrix", idx, sub)
       /\ trace[i - 2] = Ev("SolveSolutionStep", idx, sub)

C2_Ordering ==
    call = "SolveSolutionStep" =>
        \A i \in DOMAIN trace :
            /\ (trace[i].sub >= 1 \/ trace[i].idx = 1) =>
                  /\ trace[1] = Ev("SolveSolutionStep", 0, 0)
                  /\ \E j \in 2 .. (i - 1) : SubmissionBlockEndsAt(j, 0, 0)
            /\ trace[i].op = "EquilibrateDomains" =>
                  /\ i > 1
                  /\ SubmissionBlockEndsAt(i - 1, 1, trace[i].sub)
            /\ (trace[i].op = "SolveSolutionStep" /\ trace[i].idx = 1
                   /\ i < Len(trace)) =>
                  trace[i + 1] \in {Ev("GetSystemMatrix", 1, trace[i].sub),
                                    Ev("SetEffectiveStiffnessMatrixExplicit", 1,
                                       trace[i].sub)}
            /\ (trace[i].op \in SetStiffnessOps /\ trace[i].idx = 1
                   /\ i < Len(trace)) =>
                  trace[i + 1] = Ev("EquilibrateDomains", 2, trace[i].sub)

C2_Witness ==
    /\ SolveReturned /\ timestep_ratio = 2
    /\ is_implicit[0] /\ ~is_implicit[1]
    /\ Cardinality(AtAny("EquilibrateDomains", 2)) = 2

(***************************************************************************)
(* C3.  With a non-integer timestep_ratio in the parameters the            *)
(* constructor raises the timestep_ratio configuration error: no coupler   *)
(* is ever constructed, no coupler method runs, and no AdvanceInTime,      *)
(* SolveSolutionStep or stiffness submission is made on either domain.     *)
(***************************************************************************)
C3_NonIntegerRatioRejected ==
    (settings.timestep_ratio % 2 # 0) =>
        /\ ctor # "constructed"
        /\ ctor = "failed" => (call = "__init__" /\ result = "raised"
                               /\ error = "timestep_ratio")
        /\ count["calls"] = 0
        /\ count["SolveSolutionStep"] = 0
        /\ \A i \in DOMAIN trace :
              trace[i].op \notin ({"AdvanceInTime", "SolveSolutionStep",
                                   "GetSystemMatrix"} \cup SetStiffnessOps)

C3_Witness ==
    ctor = "failed" /\ settings.timestep_ratio = 5 /\ error = "timestep_ratio"

(***************************************************************************)
(* C4.  Construction accepts timestep_ratio only if it is a positive       *)
(* integer: every constructed coupler has timestep_ratio >= 1, and every   *)
(* SolveSolutionStep that returns has solved Domain B at least once.       *)
(***************************************************************************)
C4_PositiveRatioOnly ==
    /\ ctor = "constructed" => timestep_ratio >= 1
    /\ SolveReturned => AtAny("SolveSolutionStep", 1) # {}

(***************************************************************************)
(* C5.  Over any number of InitializeSolutionStep calls that return, the   *)
(* one-time FETI setup runs exactly once, in the first of them: the        *)
(* coupling utility is constructed once, SetMappingMatrix and              *)
(* SetOriginInitialKinematics are each called exactly once, all before     *)
(* the first EquilibrateDomains; a later InitializeSolutionStep makes      *)
(* none of the setup calls.                                                *)
(***************************************************************************)
SetupOps == {"CreateMapper", "FetiDynamicCouplingUtilities", "SetLinearSolver",
             "SetMappingMatrix", "SetOriginInitialKinematics"}

C5_SetupOnce ==
    /\ count["InitializeReturned"] >= 1 =>
          /\ count["FetiDynamicCouplingUtilities"] = 1
          /\ count["SetMappingMatrix"] = 1
          /\ count["SetOriginInitialKinematics"] = 1
    \* an equilibration in a run whose setup succeeds comes after the setup
    /\ (count["EquilibrateDomains"] >= 1
           /\ settings.mapper_type = "coupling_geometry") =>
          /\ count["SetMappingMatrix"] = 1
          /\ count["SetOriginInitialKinematics"] = 1
    /\ (call = "InitializeSolutionStep" /\ result = "returned") =>
          IF count["InitializeReturned"] = 1
          THEN /\ Cardinality(AtAny("SetMappingMatrix", 2)) = 1
               /\ Cardinality(AtAny("SetOriginInitialKinematics", 2)) = 1
               /\ Cardinality(AtAny("FetiDynamicCouplingUtilities", 2)) = 1
          ELSE \A i \in DOMAIN trace : trace[i].op \notin SetupOps

C5_Witness ==
    /\ call = "InitializeSolutionStep" /\ result = "returned"
    /\ count["InitializeReturned"] = 2
    /\ count["EquilibrateDomains"] = 1

(***************************************************************************)
(* C6.  AdvanceInTime(t) calls Domain B's AdvanceInTime(t) and then        *)
(* Domain A's AdvanceInTime(t), each once, and returns a non-zero time     *)
(* whenever a domain returned one (Domain A's if it is non-zero, else      *)
(* Domain B's): it returns 0 only if neither domain returned a non-zero    *)
(* time.                                                                   *)
(***************************************************************************)
C6_FirstNonZeroTime ==
    (call = "AdvanceInTime" /\ result = "returned") =>
        /\ Len(trace) = 2
        /\ trace[1].op = "AdvanceInTime" /\ trace[1].idx = 1
        /\ trace[2].op = "AdvanceInTime" /\ trace[2].idx = 0
        /\ trace[1].arg = trace[2].arg
        /\ retval = <<IF trace[2].ret # 0 THEN trace[2].ret ELSE trace[1].ret>>
        /\ (retval = <<0>>) <=> (trace[1].ret = 0 /\ trace[2].ret = 0)

(***************************************************************************)
(* C7.  With a mapper type other than "coupling_geometry" every            *)
(* InitializeSolutionStep (the first one included) raises the mapper-type  *)
(* configuration error before SetMappingMatrix: SetMappingMatrix and       *)
(* SetOriginInitialKinematics are never called and the coupler is never    *)
(* marked initialized.                                                     *)
(***************************************************************************)
C7_UnsupportedMapperFatal ==
    (settings.mapper_type # "coupling_geometry") =>
        /\ is_initialized = FALSE
        /\ count["SetMappingMatrix"] = 0
        /\ count["SetOriginInitialKinematics"] = 0
        /\ count["InitializeReturned"] = 0
        /\ (call = "InitializeSolutionStep") =>
              /\ result = "raised"
              /\ error = "mapper_type"
              /\ AtAny("SetMappingMatrix", 2) = {}
              /\ AtAny("SetOriginInitialKinematics", 2) = {}

C7_Witness ==
    /\ call = "InitializeSolutionStep" /\ result = "raised"
    /\ error = "mapper_type" /\ count["calls"] = 1

(***************************************************************************)
(* C8 as stated.  Every configuration error of the coupler (non-integer    *)
(* timestep_ratio, unsupported mapper type, unsupported solver-wrapper     *)
(* kind) is raised before any domain's SolveSolutionStep has been invoked. *)
(***************************************************************************)
ConfigurationErrors == {"timestep_ratio", "mapper_type", "wrapper_kind"}

C8_ConfigErrorsBeforeAnySolve ==
    (result = "raised" /\ error \in ConfigurationErrors) =>
        /\ count["SolveSolutionStep"] = 0
        /\ \A i \in DOMAIN trace : trace[i].op # "SolveSolutionStep"

(***************************************************************************)
(* C8 as amended.  The non-integer timestep_ratio error is raised by the   *)
(* constructor and the unsupported mapper type error by                    *)
(* InitializeSolutionStep, and neither call invokes a domain's             *)
(* SolveSolutionStep; the unsupported solver-wrapper kind error is raised  *)
(* only inside the coupler's SolveSolutionStep, at the stiffness           *)
(* submission of an implicit domain, directly after that domain's          *)
(* SolveSolutionStep has been invoked in the same call; it is never raised *)
(* for an explicit domain, whose stiffness is submitted whatever its       *)
(* wrapper kind.                                                           *)
(***************************************************************************)
C8_ConfigErrorTiming ==
    /\ (result = "raised" /\ error = "timestep_ratio") =>
          /\ call = "__init__"
          /\ count["SolveSolutionStep"] = 0
          /\ \A i \in DOMAIN trace : trace[i].op # "SolveSolutionStep"
    /\ (result = "raised" /\ error = "mapper_type") =>
          /\ call = "InitializeSolutionStep"
          /\ \A i \in DOMAIN trace : trace[i].op # "SolveSolutionStep"
    /\ (result = "raised" /\ error = "wrapper_kind") =>
          /\ call = "SolveSolutionStep"
          /\ trace # <<>>
          /\ trace[Len(trace)].op = "SolveSolutionStep"
          /\ trace[Len(trace)].idx \in 0 .. 1
          /\ is_implicit[trace[Len(trace)].idx]
          /\ wrapper_kind[trace[Len(trace)].idx] # "StructuralMechanicsWrapper"
    /\ \A i \in DOMAIN trace :
          trace[i].op = "SetEffectiveStiffnessMatrixExplicit" =>
              ~is_implicit[trace[i].idx]

C8_Witness ==
    /\ result = "raised" /\ error = "wrapper_kind"
    /\ trace[Len(trace)] = Ev("SolveSolutionStep", 1, 1)
    /\ ~is_implicit[0]
    /\ wrapper_kind[0] # "StructuralMechanicsWrapper"

(***************************************************************************)
(* C16.  A stiffness submission for domain index i retrieves the system    *)
(* matrix of the domain's strategy and sends it with                       *)
(* SetEffectiveStiffnessMatrixImplicit(matrix, i) iff the domain's Newmark *)
(* beta is not 0, and otherwise sends only                                 *)
(* SetEffectiveStiffnessMatrixExplicit(i) without retrieving a matrix; the *)
(* mode of each domain is fixed by the setup (the default beta -1.0 means  *)
(* implicit) and is the same at every submission of the run.               *)
(***************************************************************************)
\* The Newmark beta of the parameters for a domain index.
NewmarkBeta(idx) ==
    IF idx = 0 THEN settings.origin_newmark_beta
    ELSE settings.destination_newmark_beta

C16_StiffnessMode ==
    /\ \A i \in DOMAIN trace :
          /\ trace[i].op = "SetEffectiveStiffnessMatrixImplicit" =>
                /\ NewmarkBeta(trace[i].idx) # 0
                /\ i > 1
                /\ trace[i - 1] = Ev("GetSystemMatrix", trace[i].idx, trace[i].sub)
          /\ trace[i].op = "SetEffectiveStiffnessMatrixExplicit" =>
                /\ NewmarkBeta(trace[i].idx) = 0
                /\ i > 1 => trace[i - 1].op # "GetSystemMatrix"
          /\ trace[i].op = "GetSystemMatrix" => NewmarkBeta(trace[i].idx) # 0
    /\ "is_implicit" \in attrs =>
          \A idx \in 0 .. 1 : is_implicit[idx] <=> (NewmarkBeta(idx) # 0)
    /\ (SolveReturned /\ timestep_ratio >= 1) =>
          \A idx \in 0 .. 1 :
              IF NewmarkBeta(idx) # 0
              THEN AtAny("SetEffectiveStiffnessMatrixImplicit", idx) # {}
              ELSE AtAny("SetEffectiveStiffnessMatrixExplicit", idx) # {}

C16_Witness ==
    /\ SolveReturned /\ timestep_ratio = 2
    /\ settings.origin_newmark_beta = 0
    /\ settings.destination_newmark_beta = -4
    /\ Cardinality(AtAny("SetEffectiveStiffnessMatrixImplicit", 1)) = 2
    /\ Cardinality(AtAny("GetSystemMatrix", 1)) = 2
    /\ Cardinality(AtAny("SetEffectiveStiffnessMatrixExplicit", 0)) = 1

(***************************************************************************)
(* C17.  In every substep k > 1 of a SolveSolutionStep call the calls are  *)
(* made in the order B.AdvanceInTime, B.InitializeSolutionStep, the        *)
(* secondary writer's InitializeSolutionStep (made iff the secondary       *)
(* writer exists, that is iff exactly two coupling operations are          *)
(* configured), B.Predict, all of them before that substep's               *)
(* B.SolveSolutionStep; the writer's InitializeSolutionStep is never       *)
(* called without a secondary writer and never in substep 1.               *)
(***************************************************************************)
SecondaryWriterExists == n_coupling_ops = 2

C17_SubstepPrologue ==
    call = "SolveSolutionStep" =>
        \A i \in DOMAIN trace :
            LET e == trace[i]
                k == trace[i].sub
            IN  /\ (e.op = "AdvanceInTime" /\ e.idx = 1) => k > 1
                /\ (e.op = "InitializeSolutionStep" /\ e.idx = 1) =>
                      /\ k > 1 /\ i > 1
                      /\ trace[i - 1].op = "AdvanceInTime"
                      /\ trace[i - 1].idx = 1 /\ trace[i - 1].sub = k
                /\ e.op = "vtk.InitializeSolutionStep" =>
                      /\ SecondaryWriterExists
                      /\ k > 1 /\ i > 1
                      /\ trace[i - 1] = Ev("InitializeSolutionStep", 1, k)
                /\ (e.op = "Predict" /\ e.idx = 1) =>
                      /\ k > 1 /\ i > 1
                      /\ trace[i - 1] = IF SecondaryWriterExists
                                        THEN Ev("vtk.InitializeSolutionStep", 1, k)
                                        ELSE Ev("InitializeSolutionStep", 1, k)
                /\ (e.op = "SolveSolutionStep" /\ e.idx = 1 /\ k > 1) =>
                      /\ i > 1
                      /\ trace[i - 1] = Ev("Predict", 1, k)
                /\ (e.op = "SolveSolutionStep" /\ e.idx = 1 /\ k = 1) =>
                      /\ i > 1
                      /\ trace[i - 1].sub = 0

C17_Witness ==
    /\ SolveReturned /\ timestep_ratio = 3
    /\ n_coupling_ops = 2
    /\ Cardinality(AtAny("vtk.InitializeSolutionStep", 1)) = 2
    /\ At("vtk.InitializeSolutionStep", 1, 1) = {}

(***************************************************************************)
(* C18 as stated.  In a SolveSolutionStep call that returns, every substep *)
(* except the last makes, after EquilibrateDomains, B.FinalizeSolutionStep *)
(* and then, only if a secondary writer is present, the writer's           *)
(* FinalizeSolutionStep followed by an output call; the last substep makes *)
(* none of them, so B.FinalizeSolutionStep is called timestep_ratio - 1    *)
(* times.  Any OutputSolutionStep call is counted as the output.           *)
(***************************************************************************)
OutputOps == {"OutputSolutionStep", "vtk.OutputSolutionStep"}

\* Positions of trace holding an output call in substep sub.
OutputAt(sub) ==
    {i \in DOMAIN trace : trace[i].op \in OutputOps /\ trace[i].sub = sub}

C18_EpilogueOutputIfWriter ==
    (SolveReturned /\ timestep_ratio >= 1) =>
        /\ Cardinality(AtAny("FinalizeSolutionStep", 1)) = timestep_ratio - 1
        /\ \A k \in 1 .. (timestep_ratio - 1) :
              /\ Cardinality(At("FinalizeSolutionStep", 1, k)) = 1
              /\ IF SecondaryWriterExists
                 THEN /\ Cardinality(At("vtk.FinalizeSolutionStep", 1, k)) = 1
                      /\ Cardinality(OutputAt(k)) = 1
                 ELSE /\ At("vtk.FinalizeSolutionStep", 1, k) = {}
                      /\ OutputAt(k) = {}
        /\ At("FinalizeSolutionStep", 1, timestep_ratio) = {}
        /\ At("vtk.FinalizeSolutionStep", 1, timestep_ratio) = {}
        /\ OutputAt(timestep_ratio) = {}

(***************************************************************************)
(* C18 as amended.  In every substep except the last, directly after       *)
(* EquilibrateDomains, the coupler calls B.FinalizeSolutionStep, then the  *)
(* secondary writer's FinalizeSolutionStep iff exactly two coupling        *)
(* operations are configured, then Domain B's own OutputSolutionStep,      *)
(* whether or not a secondary writer exists; no output call is made on the *)
(* writer.  The last substep makes none of these calls.  A call that       *)
(* returns has made B.FinalizeSolutionStep and B.OutputSolutionStep        *)
(* timestep_ratio - 1 times each when timestep_ratio >= 1, and not at all  *)
(* when timestep_ratio < 1.                                                *)
(***************************************************************************)
C18_EpilogueOutputOnDomainB ==
    call = "SolveSolutionStep" =>
        /\ \A i \in DOMAIN trace :
              LET e == trace[i]
                  k == trace[i].sub
              IN  /\ (e.op = "FinalizeSolutionStep" /\ e.idx = 1) =>
                        /\ k >= 1 /\ k < timestep_ratio /\ i > 1
                        /\ trace[i - 1] = Ev("EquilibrateDomains", 2, k)
                  /\ e.op = "vtk.FinalizeSolutionStep" =>
                        /\ SecondaryWriterExists
                        /\ k >= 1 /\ k < timestep_ratio /\ i > 1
                        /\ trace[i - 1] = Ev("FinalizeSolutionStep", 1, k)
                  /\ e.op = "OutputSolutionStep" =>
                        /\ e.idx = 1
                        /\ k >= 1 /\ k < timestep_ratio /\ i > 1
                        /\ trace[i - 1] = IF SecondaryWriterExists
                                          THEN Ev("vtk.FinalizeSolutionStep", 1, k)
                                          ELSE Ev("FinalizeSolutionStep", 1, k)
                  /\ e.op # "vtk.OutputSolutionStep"
        /\ SolveReturned =>
              /\ \A k \in 1 .. (timestep_ratio - 1) :
                    /\ Cardinality(At("FinalizeSolutionStep", 1, k)) = 1
                    /\ Cardinality(At("OutputSolutionStep", 1, k)) = 1
                    /\ Cardinality(At("vtk.FinalizeSolutionStep", 1, k))
                          = IF SecondaryWriterExists THEN 1 ELSE 0
              /\ Cardinality(AtAny("FinalizeSolutionStep", 1))
                    = IF timestep_ratio >= 1 THEN timestep_ratio - 1 ELSE 0
              /\ Cardinality(AtAny("OutputSolutionStep", 1))
                    = IF timestep_ratio >= 1 THEN timestep_ratio - 1 ELSE 0

C18_Witness ==
    /\ SolveReturned /\ timestep_ratio = 3
    /\ n_coupling_ops = 0
    /\ Cardinality(AtAny("OutputSolutionStep", 1)) = 2
    /\ Cardinality(AtAny("FinalizeSolutionStep", 1)) = 2

(***************************************************************************)
(* C19.  If an external call made by SolveSolutionStep fails (Domain A's   *)
(* solve, a Domain B substep solve, a stiffness submission,                *)
(* EquilibrateDomains or any other), the failure leaves SolveSolutionStep  *)
(* unchanged: the call is over, it returns no value, and it makes no       *)
(* further solver or coupling-utility call (no later substep, no           *)
(* equilibration after a failed B solve).                                  *)
(***************************************************************************)
C19_FailurePropagates ==
    [][(call = "SolveSolutionStep" /\ result = "raised") =>
          /\ pc = "done"
          /\ error # "none"
          /\ retval = <<>>
          /\ pc' = "idle"
          /\ trace' = <<>>
          /\ result' = "none"
          /\ count' = count]_vars

C19_Witness ==
    /\ call = "SolveSolutionStep" /\ result = "raised" /\ error = "external"
    /\ timestep_ratio = 3
    /\ trace[Len(trace)] = Ev("SolveSolutionStep", 1, 2)
    /\ Cardinality(AtAny("EquilibrateDomains", 2)) = 1

(***************************************************************************)
(* Reading the face groups                                                 *)
(***************************************************************************)
\* Every face has been classified in the current pass.
AllFacesClassified ==
    /\ rve.passes >= 1
    /\ rve.face_index = 2 * rve.domain_size

\* The classification order the claims speak of.
ClaimOrder ==
    IF rve.domain_size = 3
    THEN <<"max_x_face", "max_y_face", "max_z_face",
           "min_x_face", "min_y_face", "min_z_face">>
    ELSE <<"max_x_face", "max_y_face", "min_x_face", "min_y_face">>

\* Positions in ClaimOrder of the face groups with a facet holding node n,
\* and of the face groups with n in their node set.
GroupsTouching(n) ==
    {i \in DOMAIN ClaimOrder : n \in NodesOf(rve.face_conditions[ClaimOrder[i]])}

GroupsOwning(n) ==
    {i \in DOMAIN ClaimOrder : n \in rve.face_nodes[ClaimOrder[i]]}

C10_NoEmptyFaceGroup ==
    (rve.pc = "idle" /\ rve.result = "returned") =>
        \A i \in DOMAIN ClaimOrder : rve.face_conditions[ClaimOrder[i]] # {}

(***************************************************************************)
(* C11.  If the boundary model part holds no condition, face construction  *)
(* raises the "no conditions" error in the first __PopulateMp, before any  *)
(* condition is traversed: no face sub model part is created, no condition *)
(* is added to a face group and no node is flagged as claimed, even when   *)
(* the root model part holds conditions lying on a face.                   *)
(***************************************************************************)
C11_EmptyBoundaryFatal ==
    rve.boundary_conditions = {} =>
        /\ rve.pc # "L150"
        /\ (rve.passes >= 1 /\ rve.pc = "idle") =>
              /\ rve.result = "raised"
              /\ rve.error = "boundary_mp has no conditions"
        /\ rve.face_index = 0
        /\ rve.sub_model_parts = {}
        /\ \A f \in FaceNames :
              rve.face_conditions[f] = {} /\ rve.face_nodes[f] = {}
        /\ rve.slave = {}

C11_Witness ==
    /\ rve.boundary_conditions = {}
    /\ rve.result = "raised"
    /\ rve.passes = 2
    /\ \E cond \in rve.root_conditions :
          WithinEps(cond, 1, rve.max_corner[1], rve.diag2)

(***************************************************************************)
(* Reading the bounding box                                                *)
(***************************************************************************)
\* The coordinates of the averaging nodes on axis c.
AxisCoords(c) == {n[c] : n \in rve.averaging_nodes}

(***************************************************************************)
(* C12 as stated.  For any averaging region with at least one node,        *)
(* _DetectBoundingBox returns on every axis min_corner equal to the        *)
(* minimum and max_corner equal to the maximum nodal coordinate of that    *)
(* axis, hence min_corner <= max_corner on every axis.                     *)
(***************************************************************************)
C12_BoxIsExtrema ==
    rve.pc = "returned" =>
        \A c \in 1 .. 3 :
            /\ rve.min_corner[c] = MinOf(AxisCoords(c))
            /\ rve.max_corner[c] = MaxOf(AxisCoords(c))
            /\ rve.min_corner[c] <= rve.max_corner[c]

(***************************************************************************)
(* C12 as amended.  For any averaging region with at least one node,       *)
(* min_corner <= max_corner on every axis; on an axis where every nodal    *)
(* coordinate lies between the sentinels -1e20 and 1e20, min_corner is the *)
(* minimum and max_corner the maximum nodal coordinate of that axis; a     *)
(* coordinate beyond a sentinel leaves the sentinel in the corner.         *)
(***************************************************************************)
C12_BoxWithinSentinels ==
    rve.pc = "returned" =>
        \A c \in 1 .. 3 :
            /\ rve.min_corner[c] <= rve.max_corner[c]
            /\ (\A x \in AxisCoords(c) : -BoxSentinel <= x /\ x <= BoxSentinel) =>
                  /\ rve.min_corner[c] = MinOf(AxisCoords(c))
                  /\ rve.max_corner[c] = MaxOf(AxisCoords(c))
            /\ MinOf(AxisCoords(c)) > BoxSentinel => rve.min_corner[c] = BoxSentinel
            /\ MaxOf(AxisCoords(c)) < -BoxSentinel => rve.max_corner[c] = -BoxSentinel

C12_Witness ==
    /\ rve.pc = "returned"
    /\ rve.domain_size = 3
    /\ Cardinality(rve.averaging_nodes) = 2
    /\ \A c \in 1 .. 3 : \A x \in AxisCoords(c) : -BoxSentinel <= x /\ x <= BoxSentinel
    /\ rve.min_corner = <<-BoxSentinel, 0, 0>>
    /\ rve.max_corner = <<0, BoxSentinel, 0>>

(***************************************************************************)
(* C13.  Classifying a face again (same boundary region, axis, target      *)
(* coordinate, eps and face name) with no node flagged as claimed before   *)
(* the call, as before the first classification of that face, succeeds and *)
(* leaves the face group with the same facet set and the same node set:    *)
(* the second call neither adds nor loses facets or nodes.                 *)
(***************************************************************************)
\* The face the next __PopulateMp classifies.
FaceInTurn == FaceOrder(rve.domain_size)[rve.face_index + 1]

C13_ClassifyFaceIdempotent ==
    [][(rve.pc = "L139" /\ rve.passes >= 2 /\ rve.slave = {}
           /\ FaceInTurn \in rve.sub_model_parts) =>
          /\ rve'.result # "raised"
          /\ rve'.face_index = rve.face_index + 1
          /\ rve'.face_conditions[FaceInTurn] = rve.face_conditions[FaceInTurn]
          /\ rve'.face_nodes[FaceInTurn] = rve.face_nodes[FaceInTurn]]_vars

C13_Witness ==
    /\ rve.passes = 2
    /\ rve.face_index = 1
    /\ rve.root_conditions = rve.boundary_conditions
    /\ rve.domain_size = 3
    /\ rve.face_conditions["max_x_face"] # {}
    /\ rve.slave = NodesOf(rve.face_conditions["max_x_face"])
    /\ rve.face_nodes["max_x_face"] = rve.slave

(***************************************************************************)
(* Reading the periodicity calls                                           *)
(***************************************************************************)
\* Positions of ptrace holding a call of op.
PAt(op) == {i \in DOMAIN rve.ptrace : rve.ptrace[i].op = op}

(***************************************************************************)
(* C14.  ApplyPeriodicity removes every master-slave constraint present in *)
(* the root model part before the call, whatever created it and at         *)
(* whatever level, before any periodicity relation is assigned: after the  *)
(* call (returned or not) the store holds no constraint that existed       *)
(* before it, only the constraints this call created.                      *)
(***************************************************************************)
C14_ClearsAllConstraints ==
    rve.applied >= 1 =>
        /\ \A c \in rve.constraints :
              c.owner = "periodicity" /\ c.call_no = rve.applied
        /\ rve.constraints \cap rve.initial_constraints = {}
        /\ PAt("RemoveMasterSlaveConstraintsFromAllLevels") = {1}

C14_Witness ==
    /\ rve.applied = 1
    /\ rve.presult = "returned"
    /\ rve.initial_constraints = OtherConstraints
    /\ rve.constraints # {}

(***************************************************************************)
(* C15.  When ApplyPeriodicity returns after an earlier ApplyPeriodicity   *)
(* has returned (same strain tensor, same face groups), the constraint set *)
(* has the same size after this call as before it, and none of the earlier *)
(* constraints is left: the constraints are replaced, never accumulated,   *)
(* over any number of repeated calls.                                      *)
(***************************************************************************)
C15_ConstraintsReplaced ==
    [][(rve'.applied = rve.applied + 1 /\ rve.presult = "returned"
           /\ rve'.presult = "returned") =>
          /\ Cardinality(rve'.constraints) = Cardinality(rve.constraints)
          /\ rve'.constraints \cap rve.constraints = {}]_vars

C15_Witness ==
    /\ rve.applied = 2
    /\ rve.returned = 2
    /\ rve.domain_size = 3
    /\ Cardinality(rve.constraints) >= 4

(***************************************************************************)
(* C20.  An ApplyPeriodicity call that returns has issued AssignPeriodicity *)
(* for the x pair, then the y pair, then (3-D only) the z pair, each with  *)
(* the min face as master, the max face as slave, the strain tensor of the *)
(* analysis and a separation vector whose only non-zero component is       *)
(* max_corner - min_corner at that axis, and then Finalize exactly once;   *)
(* in no call, returned or not, does Finalize come before an               *)
(* AssignPeriodicity.                                                      *)
(***************************************************************************)
ExpectedSeparation(axis) ==
    [i \in 1 .. rve.domain_size |->
        IF i = axis THEN rve.max_corner[i] - rve.min_corner[i] ELSE 0]

C20_AssignThenFinalize ==
    rve.applied >= 1 =>
        /\ rve.presult = "returned" =>
              /\ Len(rve.ptrace) = rve.domain_size + 2
              /\ PAt("AssignPeriodicity") = 2 .. (rve.domain_size + 1)
              /\ PAt("Finalize") = {rve.domain_size + 2}
              /\ \A axis \in 1 .. rve.domain_size :
                    /\ rve.ptrace[axis + 1].master
                          = <<"min_x_face", "min_y_face", "min_z_face">>[axis]
                    /\ rve.ptrace[axis + 1].slave
                          = <<"max_x_face", "max_y_face", "max_z_face">>[axis]
                    /\ rve.ptrace[axis + 1].strain = rve.strain
                    /\ rve.ptrace[axis + 1].direction = ExpectedSeparation(axis)
        /\ \A i \in PAt("Finalize") :
              /\ i = Len(rve.ptrace)
              /\ Cardinality(PAt("AssignPeriodicity")) = rve.domain_size
        /\ Cardinality(PAt("Finalize")) <= 1

C20_Witness ==
    /\ rve.presult = "returned"
    /\ rve.domain_size = 3
    /\ rve.max_corner = <<1, 0, 0>>
    /\ rve.strain[<<0, 1>>] = 3
    /\ Len(rve.ptrace) = 5

(***************************************************************************)
(* C21.  A facet of the boundary region is in a face group iff the         *)
(* distance between its geometric center and the face's target coordinate  *)
(* along the face's axis is strictly less than eps = populate_search_eps   *)
(* times the bounding-box diagonal: a facet whose center is exactly eps    *)
(* away is excluded, and with a zero diagonal no facet is in any group.    *)
(***************************************************************************)
\* k times (center - coordinate) along the axis of the face, k the number
\* of nodes of the facet.
CenterOffset(cond, face) ==
    SumCoord(cond, FaceComponent(face))
    - Cardinality(cond) * FaceCoordinate(face, rve.min_corner, rve.max_corner)

\* (k * diagonal)^2
ScaledDiagSquared(cond) ==
    Cardinality(cond) * Cardinality(cond)
    * DiagSquared(rve.min_corner, rve.max_corner)

\* |center - coordinate| < 1e-4 * diagonal, squared and multiplied by k^2 * 1e8.
\* (k * diagonal)^2 stays below 5e8 on the meshes of SpecEps, so an offset
\* whose square is 5 or more is not closer; the product is formed only for
\* the smaller ones.
StrictlyCloser(cond, face) ==
    LET o2 == CenterOffset(cond, face) * CenterOffset(cond, face)
    IN  /\ o2 < 5
        /\ o2 * 100000000 < ScaledDiagSquared(cond)

ExactlyEpsAway(cond, face) ==
    LET o2 == CenterOffset(cond, face) * CenterOffset(cond, face)
    IN  /\ o2 < 5
        /\ o2 * 100000000 = ScaledDiagSquared(cond)

C21_StrictEpsMembership ==
    \A face \in rve.sub_model_parts : \A cond \in rve.boundary_conditions :
        /\ ScaledDiagSquared(cond) < 500000000
        /\ cond \in rve.face_conditions[face] <=> StrictlyCloser(cond, face)
        /\ ExactlyEpsAway(cond, face) => cond \notin rve.face_conditions[face]
        /\ DiagSquared(rve.min_corner, rve.max_corner) = 0
              => cond \notin rve.face_conditions[face]

\* Diagonal 10000: the facet on X = 9999 is exactly eps = 1 away from the max
\* x face and is left out, the facet on X = 10000 is in.
C21_Witness ==
    /\ AllFacesClassified
    /\ rve.min_corner = <<0, 0, 0>> /\ rve.max_corner = <<10000, 0, 0>>
    /\ rve.boundary_conditions = {{<<9999, 0, 0>>, <<9999, 1, 0>>},
                                  {<<10000, 0, 0>>, <<10000, 1, 0>>}}
    /\ ExactlyEpsAway({<<9999, 0, 0>>, <<9999, 1, 0>>}, "max_x_face")
    /\ rve.face_conditions["max_x_face"] = {{<<10000, 0, 0>>, <<10000, 1, 0>>}}

\* Diagonal 0 and a face group was populated: it holds no facet.
C21_WitnessZeroDiagonal ==
    /\ AllFacesClassified
    /\ rve.min_corner = rve.max_corner
    /\ rve.boundary_conditions # {}
    /\ \E cond \in rve.boundary_conditions :
          CenterOffset(cond, "max_x_face") = 0

(***************************************************************************)
(* C22.  Every facet placed in a face group is a facet of the declared     *)
(* boundary region: a facet of the root mesh that is not in the boundary   *)
(* region is never included in a face group, and its nodes are never       *)
(* claimed through it, even when its center lies within eps of the         *)
(* extremal coordinate.                                                    *)
(***************************************************************************)
C22_OnlyBoundaryFacets ==
    \A face \in FaceNames :
        /\ rve.face_conditions[face] \subseteq rve.boundary_conditions
        /\ rve.face_nodes[face]
              \subseteq NodesOf(rve.face_conditions[face]
                                \cap rve.boundary_conditions)

(***************************************************************************)
(* C23.  After face construction the slave/master marking follows the face *)
(* side: the nodes assigned to max face groups carry the slave marking,    *)
(* and the nodes assigned to min face groups carry the master marking and  *)
(* not the slave marking.                                                  *)
(***************************************************************************)
MaxFaceNames == {"max_x_face", "max_y_face", "max_z_face"}
MinFaceNames == {"min_x_face", "min_y_face", "min_z_face"}

C23_MarkingFollowsSide ==
    (AllFacesClassified /\ rve.root_conditions = rve.boundary_conditions) =>
        /\ \A face \in MaxFaceNames : rve.face_nodes[face] \subseteq rve.slave
        /\ \A face \in MinFaceNames :
              /\ rve.face_nodes[face] \subseteq rve.master
              /\ rve.face_nodes[face] \cap rve.slave = {}

(***************************************************************************)
(* C24.  Within one classification pass the claim marker is cleared on the *)
(* boundary region's nodes exactly once, before the first face is          *)
(* classified, and never between the first and the last classification:    *)
(* the set of claimed nodes never shrinks across the successive face       *)
(* classifications, and a node once claimed by a face group is never added *)
(* to a later group's node set.                                            *)
(***************************************************************************)
C24_MarkerClearedOncePerPass ==
    [][/\ \* the first classification of a pass starts from cleared markers
          (rve.pc = "L139" /\ rve.face_index = 0) =>
              rve.slave \cap NodesOf(rve.boundary_conditions) = {}
       /\ \* nothing but the reset before the first face removes a marker
          ~(rve.slave \subseteq rve'.slave) =>
              (rve.pc = "L131" /\ rve'.pc = "L139" /\ rve.face_index = 0)
       /\ \* a classification claims nodes and adds exactly the newly claimed
          \* ones, to the face in turn only
          rve.pc = "L139" =>
              /\ rve.slave \subseteq rve'.slave
              /\ rve'.result # "raised" =>
                    /\ rve'.face_nodes[FaceInTurn]
                          = rve.face_nodes[FaceInTurn]
                            \cup (rve'.slave \ rve.slave)
                    /\ \A n \in rve.slave :
                          n \in rve'.face_nodes[FaceInTurn]
                              => n \in rve.face_nodes[FaceInTurn]
                    /\ \A g \in FaceNames \ {FaceInTurn} :
                          rve'.face_nodes[g] = rve.face_nodes[g]]_vars

\* Second pass of the unit square: node (1,1) lies on facets of max_x_face
\* and of max_y_face, was claimed by max_x_face and is not in max_y_face.
C24_Witness ==
    /\ rve.passes = 2
    /\ rve.domain_size = 2
    /\ rve.face_index = 4
    /\ <<1, 1, 0>> \in rve.face_nodes["max_x_face"]
    /\ <<1, 1, 0>> \in NodesOf(rve.face_conditions["max_y_face"])
    /\ <<1, 1, 0>> \notin rve.face_nodes["max_y_face"]
    /\ <<1, 1, 0>> \in rve.slave

(***************************************************************************)
(* C25.  The strain matrix handed to _ApplyPeriodicity is a d x d          *)
(* symmetric matrix, d = domain_size: for all i <= j < d the entries       *)
(* [i][j] and [j][i] both equal the configured component keyed "ij" (00,   *)
(* 11, 01 in 2-D; additionally 22, 02, 12 in 3-D), and no other entry is   *)
(* non-zero.                                                               *)
(***************************************************************************)
\* The jump of rve_settings that the key "ij" stands for.
ConfiguredComponent(i, j) ==
    CASE <<i, j>> = <<0, 0>> -> rve.jumps.XX
      [] <<i, j>> = <<1, 1>> -> rve.jumps.YY
      [] <<i, j>> = <<0, 1>> -> rve.jumps.XY
      [] <<i, j>> = <<2, 2>> -> rve.jumps.ZZ
      [] <<i, j>> = <<0, 2>> -> rve.jumps.XZ
      [] <<i, j>> = <<1, 2>> -> rve.jumps.YZ

C25_StrainMatrixSymmetric ==
    \A k \in DOMAIN rve.ptrace :
        rve.ptrace[k].op = "AssignPeriodicity" =>
            LET strain == rve.ptrace[k].strain
                d == rve.domain_size
            IN  /\ DOMAIN strain = (0 .. d - 1) \X (0 .. d - 1)
                /\ \A i \in 0 .. d - 1 : \A j \in i .. d - 1 :
                      /\ strain[<<i, j>>] = ConfiguredComponent(i, j)
                      /\ strain[<<j, i>>] = ConfiguredComponent(i, j)
                /\ \A ij \in DOMAIN strain :
                      strain[ij] # 0 =>
                          \E i \in 0 .. d - 1 : \E j \in i .. d - 1 :
                              ij \in {<<i, j>>, <<j, i>>}

\* A 3-D analysis with six different jumps has handed its matrix over.
C25_Witness ==
    /\ rve.domain_size = 3
    /\ rve.presult = "returned"
    /\ rve.jumps.XY = 3 /\ rve.jumps.XZ = 6 /\ rve.jumps.YZ = 4
    /\ rve.ptrace[2].op = "AssignPeriodicity"
    /\ rve.ptrace[2].strain[<<2, 0>>] = 6
    /\ rve.ptrace[2].strain[<<2, 1>>] = 4

(***************************************************************************)
(* C26.  Constructing an optimization algorithm whose control list holds a *)
(* control whose type is not "shape" raises a fatal error during the       *)
(* construction, before the native optimizer is created and before any     *)
(* optimization iteration, analysis or response evaluation runs.           *)
(***************************************************************************)
HasOtherThanShape ==
    \E c \in DOMAIN opt.settings.controls :
        opt.settings.controls[c].type # "shape"

C26_NonShapeControlFatal ==
    HasOtherThanShape =>
        /\ opt.ctor # "constructed"
        /\ opt.ctor = "failed" =>
              /\ opt.call = "__init__"
              /\ opt.result = "raised"
        /\ "opt_algorithm" \notin opt.attrs
        /\ opt.calls = 0
        /\ opt.pc # "L56"
        /\ opt.trace = <<>>

\* The second of two controls is a thickness control, no controller failed:
\* the construction has raised the error of the compilation.
C26_Witness ==
    /\ Len(opt.settings.controls) = 2
    /\ opt.settings.controls[1].type = "shape"
    /\ opt.settings.controls[2].type = "thickness"
    /\ opt.ctor = "failed"
    /\ opt.error = "error in compile settings"

(***************************************************************************)
(* C30.  RunOptimizationLoop of the steepest-descent algorithm ends after  *)
(* exactly max_iterations iterations, numbered 1 .. max_iterations in      *)
(* increasing order with none skipped, provided no callee raises: there is *)
(* no early exit on convergence, and in each iteration the time-step       *)
(* update precedes the analyses, which precede the response values, the    *)
(* response gradients, the control-gradient mapping and the output, in     *)
(* that order.  (The loop is run after InitializeOptimizationLoop, as the  *)
(* driver does.)                                                           *)
(***************************************************************************)
LoopEnded ==
    /\ opt.call = "RunOptimizationLoop"
    /\ opt.pc = "done"

\* The place of an external operation in an iteration.
StageOf(op) ==
    CASE op = "UpdateTimeStep" -> 1
      [] op = "RunAnalyses" -> 2
      [] op = "CalculateResponsesValue" -> 3
      [] op = "CalculateResponseGradientsForTypesAndObjects" -> 4
      [] op = "MapControlFirstDerivative" -> 5
      [] OTHER -> 6

InStage(iteration, stage) ==
    {i \in DOMAIN opt.trace :
        /\ opt.trace[i].iteration = iteration
        /\ StageOf(opt.trace[i].op) = stage}

C30_LoopRunsMaxIterations ==
    /\ (LoopEnded /\ "root_model_parts_vtkIOs" \in opt.attrs
          /\ opt.error # "external") => opt.result = "returned"
    /\ (LoopEnded /\ opt.result = "returned") =>
          LET max == opt.settings.max_iterations
              starts == SelectSeq(opt.trace,
                                  LAMBDA e : e.op = "UpdateTimeStep")
          IN  /\ Len(starts) = (IF max > 0 THEN max ELSE 0)
              /\ \A k \in DOMAIN starts :
                    starts[k].iteration = k /\ starts[k].arg = k
              /\ \A i \in DOMAIN opt.trace :
                    opt.trace[i].iteration \in 1 .. max
              /\ \A i, j \in DOMAIN opt.trace :
                    i < j =>
                        \/ opt.trace[i].iteration < opt.trace[j].iteration
                        \/ /\ opt.trace[i].iteration = opt.trace[j].iteration
                           /\ StageOf(opt.trace[i].op)
                                <= StageOf(opt.trace[j].op)
              /\ \A k \in 1 .. max : \A stage \in 1 .. 3 :
                    Cardinality(InStage(k, stage)) = 1

\* Two iterations, the objective converged from the first one on: the
\* second iteration ran all its stages.
C30_Witness ==
    /\ LoopEnded /\ opt.result = "returned"
    /\ opt.settings.max_iterations = 2
    /\ opt.settings.converged_from = 1
    /\ opt.settings.output_interval = 2
    /\ \A stage \in 1 .. 6 : InStage(2, stage) # {}
    /\ Cardinality(InStage(2, 5)) = 2
    /\ \E i \in InStage(2, 6) : opt.trace[i].op = "PrintOutput"
    /\ \A i \in InStage(1, 6) : opt.trace[i].op # "PrintOutput"

(***************************************************************************)
(* Claims on the coupler in a solution loop (specification SpecLoop).      *)
(***************************************************************************)

\* The outer step (0 for the first) of the call that is running or ran last.
OuterStep == (count["calls"] - 1) \div Len(SolutionLoop)

\* The time the driver passed to AdvanceInTime in this outer step.
StepStart == OuterStep * timestep_ratio

AdvanceReturned == call = "AdvanceInTime" /\ pc = "done" /\ result = "returned"

(***************************************************************************)
(* C27: with Domain B's AdvanceInTime(t) returning t + dt_B and Domain A's *)
(* returning t + timestep_ratio * dt_B (dt_B is 1 here), in every outer    *)
(* step of a run with timestep_ratio >= 1 Domain B's AdvanceInTime is      *)
(* called exactly timestep_ratio times in a chain: once by the coupler's   *)
(* AdvanceInTime(t) with t, and once in each of the substeps               *)
(* 2..timestep_ratio of SolveSolutionStep with the value the previous B    *)
(* call returned; when SolveSolutionStep returns, Domain B's clock equals  *)
(* Domain A's time t + dt_A.                                               *)
(***************************************************************************)
C27_DomainBClockChained ==
    (InLoop /\ ctor = "constructed" /\ timestep_ratio >= 1) =>
        /\ AdvanceReturned =>
              /\ trace = <<EvT("AdvanceInTime", 1, 0, StepStart, StepStart + 1),
                           EvT("AdvanceInTime", 0, 0, StepStart,
                               StepStart + timestep_ratio)>>
              /\ solverB_time = StepStart + 1
              /\ time = StepStart + timestep_ratio
        /\ call = "InitializeSolutionStep" =>
              /\ solverB_time = StepStart + 1
              /\ time = StepStart + timestep_ratio
        /\ call = "SolveSolutionStep" =>
              /\ time = StepStart + timestep_ratio
              /\ \A i \in AtAny("AdvanceInTime", 1) :
                    /\ trace[i].sub \in 2 .. timestep_ratio
                    /\ trace[i].arg = StepStart + trace[i].sub - 1
                    /\ trace[i].ret \in {-1, trace[i].arg + 1}
                    /\ \A j \in AtAny("AdvanceInTime", 1) :
                          (trace[j].sub = trace[i].sub + 1 /\ trace[i].ret # -1)
                              => trace[j].arg = trace[i].ret
        /\ SolveReturned =>
              /\ Cardinality(AtAny("AdvanceInTime", 1)) = timestep_ratio - 1
              /\ \A k \in 2 .. timestep_ratio :
                    Cardinality(At("AdvanceInTime", 1, k)) = 1
              /\ solverB_time = StepStart + timestep_ratio
              /\ solverB_time = time

\* The second outer step of a run with timestep_ratio = 3 has returned from
\* SolveSolutionStep: Domain B was advanced from 3 to 6 in three calls.
C27_Witness ==
    /\ InLoop
    /\ SolveReturned
    /\ timestep_ratio = 3
    /\ OuterStep = 1
    /\ solverB_time = 6
    /\ \E i \in At("AdvanceInTime", 1, 3) : trace[i].arg = 5 /\ trace[i].ret = 6

\* Positions of trace where the SolveSolutionStep of domain idx reported a
\* failure (returned False).
FailedSolves(idx) ==
    {i \in AtAny("SolveSolutionStep", idx) : trace[i].ret = 0}

(***************************************************************************)
(* C28: every SolveSolutionStep call that completes returns True, whatever *)
(* the domains' SolveSolutionStep returned.  After a Domain A solve that   *)
(* returned False the stiffness of index 0 is still submitted; after a     *)
(* Domain B solve that returned False in substep k the stiffness of index  *)
(* 1 is submitted and the domains are equilibrated in substep k, and the   *)
(* loop still runs all of its substeps.                                    *)
(***************************************************************************)
C28_DomainFailureIgnored ==
    (InLoop /\ SolveReturned) =>
        /\ retval = <<TRUE>>
        /\ AtAny("SolveSolutionStep", 0) = {1}
        /\ \E j \in SubmittedAny(0) :
              j > 1 /\ \A i \in AtAny("SolveSolutionStep", 1) : j < i
        /\ \A k \in 1 .. timestep_ratio :
              \E i \in At("SolveSolutionStep", 1, k) :
              \E j \in Submitted(1, k) :
              \E e \in At("EquilibrateDomains", 2, k) : i < j /\ j < e
        /\ \A i \in FailedSolves(1) :
              /\ \E j \in Submitted(1, trace[i].sub) : j > i
              /\ \E e \in At("EquilibrateDomains", 2, trace[i].sub) : e > i
              /\ \A k \in (trace[i].sub + 1) .. timestep_ratio :
                    \E n \in At("SolveSolutionStep", 1, k) : n > i

\* A call that returned although Domain A's solve and Domain B's solve of the
\* first of three substeps both reported a failure.
C28_Witness ==
    /\ InLoop
    /\ SolveReturned
    /\ timestep_ratio = 3
    /\ FailedSolves(0) = {1}
    /\ \E i \in FailedSolves(1) : trace[i].sub = 1
    /\ \E i \in AtAny("SolveSolutionStep", 1) : trace[i].sub = 3 /\ trace[i].ret = 1

\* A setup was started before and none has finished: the setup raised.
SetupRaisedBefore ==
    is_initialized = FALSE /\ count["FetiDynamicCouplingUtilities"] >= 1

SuperInitialize == <<Ev("super.InitializeSolutionStep", 2, 0)>>

====
